---------------------------- MODULE Spec2Model ----------------------------
(***************************************************************************)
(* Offline cache and push-notification lifecycle of the calendar client.   *)
(*                                                                         *)
(*   SpecCache   : the service worker's install / activate / fetch        *)
(*                 handlers (public/service-worker.js, lines 5-138).       *)
(*   SpecMessage : the worker's message handler and showNotification       *)
(*                 (lines 141-206).                                        *)
(*   SpecPush    : the worker's push handler (lines 209-289).              *)
(*   SpecClick   : the worker's notificationclick handler (lines 292-329). *)
(*   SpecSub     : notificationService.subscribeToPushNotifications        *)
(*                 (unnamed/part_001, lines 1057-1246).                    *)
(*   SpecKey     : the same with every answer to the VAPID key request     *)
(*                 (getVapidPublicKey, lines 987-1047).                    *)
(*   SpecMgr     : unsubscribeFromPushNotifications and isSubscribed       *)
(*                 (lines 1265-1317).                                      *)
(*   SpecPref    : getEventPreferences (lines 885-929).                    *)
(*   SpecTypes   : getUniqueEventTypes (lines 1331-1348).                  *)
(*   SpecGet     : getPreferences (lines 790-827).                         *)
(*   SpecSettings: the handlers of components/SettingsModal (2).tsx that   *)
(*                 write preferences, with updatePreferences,              *)
(*                 updateEventPreference and saveAllPreferences.           *)
(*   SpecEmail   : the debounced write of the email field of that modal.   *)
(*                                                                         *)
(* Text (URLs, paths) is a sequence of tokens, so that prefix and          *)
(* substring tests are computed the way the code computes them.            *)
(***************************************************************************)
EXTENDS Integers, Sequences, FiniteSets, TLC

\* ------------------------------------------------------------------------
\* Bounds of the model
\* ------------------------------------------------------------------------

\* Number of fetch events dispatched to the worker in one run.
MaxFetch == 2

\* Number of push events, of message events and of notification clicks
\* delivered to the worker in one run.
MaxPush == 2
MaxMsg == 2
MaxClick == 2

\* Number of calls of subscribeToPushNotifications in one run.
MaxCalls == 2

\* Length of the list of candidate event types given to getEventPreferences.
MaxTypes == 2

\* Number of calls of unsubscribeFromPushNotifications and isSubscribed in
\* one run.
MaxMgrCalls == 3

\* Number of calls of subscribeToPushNotifications in one run in which every
\* answer of the server to the VAPID key request is tried.
MaxKeyCalls == 1

\* Length of the list of events given to getUniqueEventTypes.
MaxEvents == 3

\* Number of fields the preference record of the server holds.
MaxPresent == 3

\* Number of operations of the user in one session of the settings.
MaxOps == 2

\* Number of edits of the email field in one session of the settings.
MaxEdits == 3

\* ------------------------------------------------------------------------
\* Text helpers
\* ------------------------------------------------------------------------

\* String.prototype.startsWith on token sequences.
StartsWith(s, prefix) ==
    /\ Len(prefix) <= Len(s)
    /\ \A i \in 1..Len(prefix) : s[i] = prefix[i]

\* String.prototype.includes on token sequences (contiguous subsequence).
Includes(s, t) ==
    \E off \in 0..(Len(s) - Len(t)) :
        \A i \in 1..Len(t) : s[off + i] = t[i]

\* ------------------------------------------------------------------------
\* Cache Manager: constants of the worker
\* ------------------------------------------------------------------------

CACHE_NAME == "calendar-app-v1"

\* The origin the worker is registered for; manifest paths resolve against it.
Origin == <<"https:", "//", "app">>

RootUrl    == Origin \o <<"/">>
IndexUrl   == Origin \o <<"/", "index.html">>
OfflineUrl == Origin \o <<"/", "offline.html">>

CACHE_URLS ==
    { RootUrl,
      IndexUrl,
      Origin \o <<"/", "manifest.json">>,
      Origin \o <<"/", "public", "/", "icons", "/", "calendar-192x192.png">>,
      Origin \o <<"/", "public", "/", "icons", "/", "calendar-512x512.png">>,
      Origin \o <<"/", "public", "/", "icons", "/", "icon-192x192.png">>,
      Origin \o <<"/", "public", "/", "icons", "/", "icon-512x512.png">> }

\* Requests the page can issue.
ApiUrl       == Origin \o <<"/", "api", "/", "events">>
AssetUrl     == Origin \o <<"/", "assets", "/", "main.js">>
ChromeExtUrl == <<"chrome-extension:", "//", "abc", "/", "content.js">>
MozExtUrl    == <<"moz-extension:", "//", "abc", "/", "content.js">>

Urls == CACHE_URLS \cup {OfflineUrl, ApiUrl, AssetUrl, ChromeExtUrl, MozExtUrl}

Requests ==
    { [method |-> "GET",  url |-> ApiUrl],
      [method |-> "POST", url |-> ApiUrl],
      [method |-> "GET",  url |-> AssetUrl],
      [method |-> "GET",  url |-> ChromeExtUrl],
      [method |-> "GET",  url |-> MozExtUrl] }

\* Responses.  body tells a response fetched now ("live") from the ones an
\* earlier deployment stored.
Resp(status, type, body) == [status |-> status, type |-> type, body |-> body]

NetResponses ==
    { Resp(200, "basic", "live"),
      Resp(404, "basic", "live"),
      Resp(200, "cors",  "live") }

\* fetch() rejecting: the network is unreachable.
NetFail == Resp(0, "failure", "none")

\* What fetch() can settle with.
NetOutcomes == NetResponses \cup {NetFail}

\* caches.match() resolving with undefined.
Undefined == Resp(0, "undefined", "none")

\* respondWith() given a rejected promise: the page sees a network error.
NetworkError == Resp(0, "error", "none")

\* No value yet.
Nothing == Resp(0, "nothing", "none")

\* Cache generations the origin's storage can hold, in creation order.
GenOrder == <<"calendar-app-v0", "calendar-app-old", CACHE_NAME>>
Gens == {GenOrder[i] : i \in 1..Len(GenOrder)}

EmptyCache == [u \in Urls |-> Undefined]

\* Contents an earlier deployment may have left in a generation.
StaleContents ==
    { EmptyCache,
      [u \in Urls |->
          IF u = ApiUrl THEN Resp(200, "basic", "stale-api")
          ELSE IF u = OfflineUrl THEN Resp(200, "basic", "offline-page")
          ELSE IF u = AssetUrl THEN Resp(200, "basic", "stale-asset")
          ELSE Undefined],
      [u \in Urls |->
          IF u = ApiUrl THEN Resp(200, "basic", "stale-api") ELSE Undefined] }

VARIABLES
    swState,      \* lifecycle state of the worker
    cacheKeys,    \* names of the stored generations, in creation order
    store,        \* store[g][u]: the entry of generation g for URL u
    installAll,   \* install handler: "start" | "opened" | "ok" | "failed" (cache.addAll)
    actKeys,      \* activate, cache clean-up branch: "idle" | "pending" | "deleting" | "done"
    toDelete,     \* generations whose caches.delete() is outstanding
    deleted,      \* generations whose caches.delete() has completed
    actClaim,     \* activate, claim branch: "idle" | "pending" | "claimed" | "done"
    claimed,      \* clients.claim() has resolved
    readyPosted,  \* window clients that were sent SERVICE_WORKER_READY
    fetches       \* log of the fetch events dispatched so far, with their progress

cacheVars == <<swState, cacheKeys, store, installAll, actKeys, toDelete,
               deleted, actClaim, claimed, readyPosted, fetches>>

VARIABLES
    hasRegistration,  \* self.registration is set
    hasShowCap,       \* self.registration.showNotification is set
    shown,            \* log of the calls of the host's showNotification
    pushes,           \* log of the push events handled
    msgs              \* log of the message events handled

notifVars == <<hasRegistration, hasShowCap, shown, pushes, msgs>>

VARIABLES
    clients,          \* the open window clients, in the order matchAll gives
    hasOpenWindow,    \* clients.openWindow is set
    clicks            \* log of the notificationclick events handled

clickVars == <<clients, hasOpenWindow, clicks>>

VARIABLES
    platform,         \* the capabilities of the browser (fixed for a run)
    permission,       \* Notification.permission: "default" | "granted" | "denied"
    hostSub,          \* endpoint of the subscription the push service holds, 0 for none
    endpoints,        \* number of subscriptions the push service has created
    inFlight,         \* calls of pushManager.subscribe not yet settled
    serverPosts,      \* log of the POSTs to /api/users/me/push-subscriptions
    subCalls          \* log of the calls of subscribeToPushNotifications

subVars == <<platform, permission, hostSub, endpoints, inFlight, serverPosts, subCalls>>

VARIABLES
    mgrCalls,         \* log of the calls of unsubscribeFromPushNotifications and isSubscribed
    serverDeletes     \* log of the DELETEs to /api/users/me/push-subscriptions

mgrVars == <<mgrCalls, serverDeletes>>

VARIABLES
    prefsAnswer,      \* what GET /api/users/me/preferences gives
    storedPrefs,      \* what GET /api/users/me/event-preferences gives
    prefCall          \* the latest call of getEventPreferences

prefVars == <<prefsAnswer, storedPrefs, prefCall>>

VARIABLES
    typesCall         \* the latest call of getUniqueEventTypes

typesVars == <<typesCall>>

VARIABLES
    getCall           \* the latest call of getPreferences

getVars == <<getCall>>

VARIABLES
    srvPrefs,         \* the preference record the server holds
    srvEvents,        \* the per-type preference records the server holds
    srvEvents0,       \* the per-type records when the settings were opened
    uiPrefs,          \* SettingsModal state: preferences
    uiEvents,         \* SettingsModal state: eventTypes
    touched,          \* the types the user has set a value for in this session
    puts,             \* the bodies of the PUTs to /api/users/me/preferences so far
    writeCalls,       \* the calls of the write operations of the service so far
    ops,              \* number of operations of the user so far
    timers,           \* the pending timeouts of the email field, with the value each will write
    emailWrites,      \* log of the addresses the fired timeouts have sent
    burstLast         \* per burst of email edits, the value typed last

setVars == <<srvPrefs, srvEvents, srvEvents0, uiPrefs, uiEvents, touched, puts, writeCalls, ops, timers, emailWrites, burstLast>>

vars == <<cacheVars, notifVars, clickVars, subVars, mgrVars, prefVars, typesVars, getVars, setVars>>

\* Window clients open while the worker activates.
WindowClients == {"tab1", "tab2"}

\* The handlers of one specification leave the state of the others alone.
CacheFrame == UNCHANGED <<notifVars, clickVars, subVars, mgrVars, prefVars, typesVars, getVars, setVars>>
NotifFrame == UNCHANGED <<cacheVars, clickVars, subVars, mgrVars, prefVars, typesVars, getVars, setVars>>
ClickFrame == UNCHANGED <<cacheVars, notifVars, subVars, mgrVars, prefVars, typesVars, getVars, setVars>>
SubFrame == UNCHANGED <<cacheVars, notifVars, clickVars, mgrVars, prefVars, typesVars, getVars, setVars>>
MgrFrame == UNCHANGED <<cacheVars, notifVars, clickVars, prefVars, typesVars, getVars, setVars>>
PrefFrame == UNCHANGED <<cacheVars, notifVars, clickVars, subVars, mgrVars, typesVars, getVars, setVars>>
TypesFrame == UNCHANGED <<cacheVars, notifVars, clickVars, subVars, mgrVars, prefVars, getVars, setVars>>
GetFrame == UNCHANGED <<cacheVars, notifVars, clickVars, subVars, mgrVars, prefVars, typesVars, setVars>>
SetFrame == UNCHANGED <<cacheVars, notifVars, clickVars, subVars, mgrVars, prefVars, typesVars, getVars>>

\* ------------------------------------------------------------------------
\* Cache Manager: host cache storage
\* ------------------------------------------------------------------------

SeqToSet(s) == {s[i] : i \in 1..Len(s)}

\* caches.match(url): the entry of the first generation, in creation order,
\* that holds one; undefined when none does.
MatchIndex(keys, st, url) ==
    {i \in 1..Len(keys) : st[keys[i]][url] # Undefined}

Min(S) == CHOOSE x \in S : \A y \in S : x <= y

CachesMatchGen(keys, st, url) ==
    IF MatchIndex(keys, st, url) = {} THEN "none"
    ELSE keys[Min(MatchIndex(keys, st, url))]

CachesMatch(keys, st, url) ==
    IF MatchIndex(keys, st, url) = {} THEN Undefined
    ELSE st[keys[Min(MatchIndex(keys, st, url))]][url]

\* caches.open(name): creates the generation when it does not exist.
CachesOpen(keys, name) ==
    IF name \in SeqToSet(keys) THEN keys ELSE Append(keys, name)

\* caches.delete(name)
CachesDelete(keys, name) == SelectSeq(keys, LAMBDA k : k # name)

\* cache.put() refuses a request whose scheme is not http or https.
PutSupported(url) == url[1] \in {"http:", "https:"}

\* ------------------------------------------------------------------------
\* Cache Manager: install handler
\* ------------------------------------------------------------------------

\* caches.open(CACHE_NAME)
InstallOpen ==
    /\ swState = "installing"
    /\ installAll = "start"
    /\ cacheKeys' = CachesOpen(cacheKeys, CACHE_NAME)
    /\ installAll' = "opened"
    /\ UNCHANGED <<swState, store, actKeys, toDelete, deleted, actClaim, claimed,
                   readyPosted, fetches>>
    /\ CacheFrame

\* cache.addAll(CACHE_URLS): every URL is fetched; the entries are committed
\* together when every fetch succeeded, and none is when one failed.
InstallAddAll ==
    /\ swState = "installing"
    /\ installAll = "opened"
    /\ \E failed \in {{}} \cup {{u} : u \in CACHE_URLS} :
          IF failed = {}
          THEN /\ store' = [store EXCEPT ![CACHE_NAME] =
                              [u \in Urls |->
                                  IF u \in CACHE_URLS
                                  THEN Resp(200, "basic", "live")
                                  ELSE store[CACHE_NAME][u]]]
               /\ installAll' = "ok"
          ELSE /\ store' = store
               /\ installAll' = "failed"
    /\ UNCHANGED <<swState, cacheKeys, actKeys, toDelete, deleted, actClaim, claimed,
                   readyPosted, fetches>>
    /\ CacheFrame

\* The promise handed to event.waitUntil(): the chain ends in .catch(), which
\* logs the error and fulfils, so the install succeeds for either outcome.
InstallResult(outcome) == "installed"

InstallSettle ==
    /\ swState = "installing"
    /\ installAll \in {"ok", "failed"}
    /\ swState' = InstallResult(installAll)
    /\ UNCHANGED <<cacheKeys, store, installAll, actKeys, toDelete, deleted, actClaim,
                   claimed, readyPosted, fetches>>
    /\ CacheFrame

\* ------------------------------------------------------------------------
\* Cache Manager: activate handler
\* ------------------------------------------------------------------------

\* self.skipWaiting(): the installed worker activates at once.  The handler
\* starts both branches of its Promise.all.
ActivateStart ==
    /\ swState = "installed"
    /\ swState' = "activating"
    /\ actKeys' = "pending"
    /\ actClaim' = "pending"
    /\ UNCHANGED <<cacheKeys, store, installAll, toDelete, deleted, claimed,
                   readyPosted, fetches>>
    /\ CacheFrame

\* The comparison of the clean-up inverted: the current generation is the
\* one deleted.
StaleGenerationsInverted(keys) == {k \in SeqToSet(keys) : k = CACHE_NAME}

\* cacheNames.map(...): the generations caches.delete() is called for.
StaleGenerations(keys) == {k \in SeqToSet(keys) : k # CACHE_NAME}

\* caches.keys() resolves; a delete is requested for every stale generation.
ActivateKeys ==
    /\ swState = "activating"
    /\ actKeys = "pending"
    /\ toDelete' = StaleGenerations(cacheKeys)
    /\ actKeys' = "deleting"
    /\ deleted' = deleted
    /\ UNCHANGED <<swState, cacheKeys, store, installAll, actClaim, claimed,
                   readyPosted, fetches>>
    /\ CacheFrame

\* One caches.delete() completes.
ActivateDelete ==
    /\ swState = "activating"
    /\ actKeys = "deleting"
    /\ \E g \in toDelete :
          /\ cacheKeys' = CachesDelete(cacheKeys, g)
          /\ store' = [store EXCEPT ![g] = EmptyCache]
          /\ toDelete' = toDelete \ {g}
          /\ deleted' = deleted \cup {g}
    /\ UNCHANGED <<swState, installAll, actKeys, actClaim, claimed,
                   readyPosted, fetches>>
    /\ CacheFrame

\* The inner Promise.all of the deletions resolves.
ActivateCleaned ==
    /\ swState = "activating"
    /\ actKeys = "deleting"
    /\ toDelete = {}
    /\ actKeys' = "done"
    /\ UNCHANGED <<swState, cacheKeys, store, installAll, toDelete, deleted, actClaim,
                   claimed, readyPosted, fetches>>
    /\ CacheFrame

\* self.clients.claim() resolves.
ActivateClaim ==
    /\ swState = "activating"
    /\ actClaim = "pending"
    /\ claimed' = TRUE
    /\ actClaim' = "claimed"
    /\ UNCHANGED <<swState, cacheKeys, store, installAll, actKeys, toDelete, deleted,
                   readyPosted, fetches>>
    /\ CacheFrame

\* clients.matchAll({type: 'window'}) resolves; each client is sent
\* SERVICE_WORKER_READY.
ActivateNotify ==
    /\ swState = "activating"
    /\ actClaim = "claimed"
    /\ readyPosted' = WindowClients
    /\ actClaim' = "done"
    /\ UNCHANGED <<swState, cacheKeys, store, installAll, actKeys, toDelete, deleted,
                   claimed, fetches>>
    /\ CacheFrame

\* The outer Promise.all resolves: the worker is active.
ActivateDone ==
    /\ swState = "activating"
    /\ actKeys = "done"
    /\ actClaim = "done"
    /\ swState' = "activated"
    /\ UNCHANGED <<cacheKeys, store, installAll, actKeys, toDelete, deleted, actClaim,
                   claimed, readyPosted, fetches>>
    /\ CacheFrame

\* ------------------------------------------------------------------------
\* Cache Manager: fetch handler
\* ------------------------------------------------------------------------

\* The guard without its test of the URL.
SkipsRequestMethodOnly(req) == req.method # "GET"

\* The guard of the handler: such a request is left to the browser.
SkipsRequest(req) ==
    \/ req.method # "GET"
    \/ StartsWith(req.url, <<"chrome-extension:", "//">>)

\* event.request.url.includes('/api/')
IsApiRequest(req) == Includes(req.url, <<"/", "api", "/">>)

\* API branch: the network response the handler returns as it is.
ApiKeepsResponse(resp) == resp.status = 200

\* The test of the copy without its test of the response type.
CacheableStatusOnly(resp) == ~(resp.status # 200)

\* Cache-first branch: the network response a copy of which is stored.
Cacheable(resp) == ~(resp.status # 200 \/ resp.type # "basic")

NewFetch(req) ==
    [ req       |-> req,
      pc        |-> IF SkipsRequest(req) THEN "done"
                    ELSE IF IsApiRequest(req) THEN "api_net"
                    ELSE "cf_match",
      responded |-> ~SkipsRequest(req),   \* event.respondWith() was called
      cacheRead |-> FALSE,                \* caches.match() was called
      matched   |-> Nothing,              \* what caches.match(request) gave
      fromGen   |-> "none",               \* generation an answer was read from
      net       |-> Nothing,              \* what fetch(request) settled with
      answer    |-> Nothing,              \* what respondWith() resolved with
      put       |-> "none" ]              \* "none"|"open"|"put"|"written"|"rejected"

\* A fetch event is dispatched; the synchronous part of the handler runs.
FetchDispatch ==
    /\ swState = "activated"
    /\ Len(fetches) < MaxFetch
    /\ \E req \in Requests : fetches' = Append(fetches, NewFetch(req))
    /\ UNCHANGED <<swState, cacheKeys, store, installAll, actKeys, toDelete, deleted,
                   actClaim, claimed, readyPosted>>
    /\ CacheFrame

\* API branch: fetch(event.request) settles.
ApiNetwork ==
    /\ \E i \in 1..Len(fetches) : \E out \in NetOutcomes :
          /\ fetches[i].pc = "api_net"
          /\ fetches' = [fetches EXCEPT ![i] =
                IF out = NetFail
                THEN [@ EXCEPT !.net = out, !.pc = "api_offline"]
                ELSE IF ApiKeepsResponse(out)
                THEN [@ EXCEPT !.net = out, !.answer = out, !.pc = "done"]
                ELSE [@ EXCEPT !.net = out, !.pc = "api_match"]]
    /\ UNCHANGED <<swState, cacheKeys, store, installAll, actKeys, toDelete, deleted,
                   actClaim, claimed, readyPosted>>
    /\ CacheFrame

\* API branch, .then(): caches.match(event.request) resolves.
ApiCacheFallback ==
    /\ \E i \in 1..Len(fetches) :
          /\ fetches[i].pc = "api_match"
          /\ fetches' = [fetches EXCEPT ![i] =
                [@ EXCEPT !.cacheRead = TRUE,
                          !.matched = CachesMatch(cacheKeys, store, fetches[i].req.url),
                          !.fromGen = CachesMatchGen(cacheKeys, store, fetches[i].req.url),
                          !.answer = CachesMatch(cacheKeys, store, fetches[i].req.url),
                          !.pc = "done"]]
    /\ UNCHANGED <<swState, cacheKeys, store, installAll, actKeys, toDelete, deleted,
                   actClaim, claimed, readyPosted>>
    /\ CacheFrame

\* API branch, .catch(): caches.match('/offline.html') resolves.
ApiOffline ==
    /\ \E i \in 1..Len(fetches) :
          /\ fetches[i].pc = "api_offline"
          /\ fetches' = [fetches EXCEPT ![i] =
                [@ EXCEPT !.cacheRead = TRUE,
                          !.fromGen = CachesMatchGen(cacheKeys, store, OfflineUrl),
                          !.answer = CachesMatch(cacheKeys, store, OfflineUrl),
                          !.pc = "done"]]
    /\ UNCHANGED <<swState, cacheKeys, store, installAll, actKeys, toDelete, deleted,
                   actClaim, claimed, readyPosted>>
    /\ CacheFrame

\* Cache-first branch: caches.match(event.request) resolves.
CacheFirstMatch ==
    /\ \E i \in 1..Len(fetches) :
          /\ fetches[i].pc = "cf_match"
          /\ fetches' = [fetches EXCEPT ![i] =
                IF CachesMatch(cacheKeys, store, fetches[i].req.url) # Undefined
                THEN [@ EXCEPT !.cacheRead = TRUE,
                               !.matched = CachesMatch(cacheKeys, store, fetches[i].req.url),
                               !.fromGen = CachesMatchGen(cacheKeys, store, fetches[i].req.url),
                               !.answer = CachesMatch(cacheKeys, store, fetches[i].req.url),
                               !.pc = "done"]
                ELSE [@ EXCEPT !.cacheRead = TRUE,
                               !.matched = Undefined,
                               !.pc = "cf_net"]]
    /\ UNCHANGED <<swState, cacheKeys, store, installAll, actKeys, toDelete, deleted,
                   actClaim, claimed, readyPosted>>
    /\ CacheFrame

\* Cache-first branch: fetch(event.request) settles.  A cacheable response is
\* returned at once; its copy is handed to caches.open().then(cache.put),
\* which the handler does not wait for.
CacheFirstNetwork ==
    /\ \E i \in 1..Len(fetches) : \E out \in NetOutcomes :
          /\ fetches[i].pc = "cf_net"
          /\ fetches' = [fetches EXCEPT ![i] =
                IF out = NetFail
                THEN [@ EXCEPT !.net = out, !.answer = NetworkError, !.pc = "done"]
                ELSE IF Cacheable(out)
                THEN [@ EXCEPT !.net = out, !.answer = out, !.pc = "done",
                               !.put = "open"]
                ELSE [@ EXCEPT !.net = out, !.answer = out, !.pc = "done"]]
    /\ UNCHANGED <<swState, cacheKeys, store, installAll, actKeys, toDelete, deleted,
                   actClaim, claimed, readyPosted>>
    /\ CacheFrame

\* caches.open(CACHE_NAME) of the cache write resolves.
CachePutOpen ==
    /\ \E i \in 1..Len(fetches) :
          /\ fetches[i].put = "open"
          /\ fetches' = [fetches EXCEPT ![i].put = "put"]
    /\ cacheKeys' = CachesOpen(cacheKeys, CACHE_NAME)
    /\ UNCHANGED <<swState, store, installAll, actKeys, toDelete, deleted, actClaim,
                   claimed, readyPosted>>
    /\ CacheFrame

\* cache.put(event.request, responseToCache) completes.
CachePutWrite ==
    /\ \E i \in 1..Len(fetches) :
          /\ fetches[i].put = "put"
          /\ IF PutSupported(fetches[i].req.url)
             THEN /\ store' = [store EXCEPT ![CACHE_NAME][fetches[i].req.url] =
                                  fetches[i].net]
                  /\ fetches' = [fetches EXCEPT ![i].put = "written"]
             ELSE /\ store' = store
                  /\ fetches' = [fetches EXCEPT ![i].put = "rejected"]
    /\ UNCHANGED <<swState, cacheKeys, installAll, actKeys, toDelete, deleted, actClaim,
                   claimed, readyPosted>>
    /\ CacheFrame

\* ------------------------------------------------------------------------
\* Cache Manager: specification
\* ------------------------------------------------------------------------

\* Subsequences of GenOrder: the generations found at installation.
StoredAtInstall ==
    { SelectSeq(GenOrder, LAMBDA g : g \in S) : S \in SUBSET Gens }

CacheInit ==
    /\ swState = "installing"
    /\ cacheKeys \in StoredAtInstall
    /\ store \in [Gens -> StaleContents]
    /\ \A g \in Gens \ SeqToSet(cacheKeys) : store[g] = EmptyCache
    /\ installAll = "start"
    /\ actKeys = "idle"
    /\ toDelete = {}
    /\ deleted = {}
    /\ actClaim = "idle"
    /\ claimed = FALSE
    /\ readyPosted = {}
    /\ fetches = <<>>

CacheNext ==
    \/ InstallOpen
    \/ InstallAddAll
    \/ InstallSettle
    \/ ActivateStart
    \/ ActivateKeys
    \/ ActivateDelete
    \/ ActivateCleaned
    \/ ActivateClaim
    \/ ActivateNotify
    \/ ActivateDone
    \/ FetchDispatch
    \/ ApiNetwork
    \/ ApiCacheFallback
    \/ ApiOffline
    \/ CacheFirstMatch
    \/ CacheFirstNetwork
    \/ CachePutOpen
    \/ CachePutWrite

\* The other handlers of the worker at rest.
NotifIdle ==
    /\ hasRegistration = TRUE
    /\ hasShowCap = TRUE
    /\ shown = <<>>
    /\ pushes = <<>>
    /\ msgs = <<>>

ClickIdle ==
    /\ clients = <<>>
    /\ hasOpenWindow = TRUE
    /\ clicks = <<>>

SubIdle ==
    /\ platform = [serviceWorker |-> TRUE, pushManager |-> TRUE,
                   notification |-> TRUE, regPushManager |-> TRUE,
                   brave |-> FALSE]
    /\ permission = "default"
    /\ hostSub = 0
    /\ endpoints = 0
    /\ inFlight = 0
    /\ serverPosts = <<>>
    /\ subCalls = <<>>

MgrIdle ==
    /\ mgrCalls = <<>>
    /\ serverDeletes = <<>>

PrefIdle ==
    /\ prefsAnswer = [kind |-> "canonical", notifyAllEvents |-> "absent"]
    /\ storedPrefs = <<>>
    /\ prefCall = [pc |-> "idle", candidates |-> <<>>, prefsFailed |-> FALSE,
                   notifyAllEvents |-> TRUE, storedKind |-> "none",
                   result |-> <<>>]

TypesIdle ==
    typesCall = [pc |-> "idle", isArray |-> TRUE, events |-> <<>>, result |-> <<>>]

\* The fields of UserPreferences, and the reminder pair of the old format.
BooleanFields ==
    {"notifyEmail", "notifyBrowser", "notifyAllEvents", "email1hBefore",
     "email10mBefore", "browser1hBefore", "browser10mBefore", "notifyNewEvents"}
PrefFields == {"email"} \cup BooleanFields
LegacyFields == {"notify1hBefore", "notify10mBefore"}
RawFields == PrefFields \cup LegacyFields

\* A record is a function from field names to tokens: "true" and "false"
\* for the booleans, the address for email, "absent" for a missing member.
NoRecord == [f \in RawFields |-> "absent"]

\* The event types of the calendar, in the order the server lists them.
TypeOrder == <<"ama", "meetup", "workshop">>
EventTypes == {TypeOrder[k] : k \in 1..Len(TypeOrder)}

\* The types of the events the settings list.
ScreenTypes == <<"ama", "meetup">>
OnScreen == {ScreenTypes[k] : k \in 1..Len(ScreenTypes)}

SetIdle ==
    /\ srvPrefs = NoRecord
    /\ srvEvents = [t \in EventTypes |-> "absent"]
    /\ srvEvents0 = [t \in EventTypes |-> "absent"]
    /\ uiPrefs = [f \in PrefFields |-> "absent"]
    /\ uiEvents = [t \in OnScreen |-> FALSE]
    /\ touched = {}
    /\ puts = {}
    /\ writeCalls = {}
    /\ ops = 0
    /\ timers = <<>>
    /\ emailWrites = <<>>
    /\ burstLast = <<>>

GetIdle ==
    getCall = [pc |-> "idle", raw |-> NoRecord, kind |-> "none",
               result |-> [f \in PrefFields |-> "absent"]]

CacheSpecInit == CacheInit /\ NotifIdle /\ ClickIdle /\ SubIdle /\ MgrIdle /\ PrefIdle /\ TypesIdle /\ GetIdle /\ SetIdle

SpecCache == CacheSpecInit /\ [][CacheNext]_vars

\* ------------------------------------------------------------------------
\* Cache Manager: properties
\* ------------------------------------------------------------------------

FetchIds == 1..Len(fetches)

\* A GET under the remote-API prefix.
IsApiGet(e) ==
    /\ e.req.method = "GET"
    /\ Includes(e.req.url, <<"/", "api", "/">>)

\* A GET the cache-first branch handles.
IsCacheFirstGet(e) ==
    /\ e.req.method = "GET"
    /\ ~Includes(e.req.url, <<"/", "api", "/">>)
    /\ e.req.url[1] # "chrome-extension:"

\* C1 (as claimed): an API GET whose network fetch completed with a response,
\* whatever its status, is answered with exactly that response.
C1_LiveResponseWhateverStatus ==
    \A i \in FetchIds :
        (IsApiGet(fetches[i]) /\ fetches[i].pc = "done"
            /\ fetches[i].net \in NetResponses)
        => fetches[i].answer = fetches[i].net

\* C2 (as claimed): an API GET whose network fetch failed is answered with
\* the cached entry of that request when one exists, and with the offline
\* fallback page only when none exists.
C2_CachedEntryBeforeOffline ==
    \A i \in FetchIds :
        (IsApiGet(fetches[i]) /\ fetches[i].pc = "done"
            /\ fetches[i].net = NetFail)
        => fetches[i].answer =
              IF CachesMatch(cacheKeys, store, fetches[i].req.url) # Undefined
              THEN CachesMatch(cacheKeys, store, fetches[i].req.url)
              ELSE CachesMatch(cacheKeys, store, OfflineUrl)

\* C3: once the activate handler has completed, the generation named
\* CACHE_NAME is the only one stored, every other generation is empty, and no
\* fetch was answered from another generation.
C3_OneGenerationAfterActivate ==
    swState = "activated" =>
        /\ cacheKeys = <<CACHE_NAME>>
        /\ \A g \in Gens \ {CACHE_NAME} : store[g] = EmptyCache
        /\ \A i \in FetchIds : fetches[i].fromGen \in {"none", CACHE_NAME}

\* Two earlier generations were deleted and a later fetch was answered from
\* the current one.
C3_Witness ==
    /\ swState = "activated"
    /\ Cardinality(deleted) = 2
    /\ \E i \in FetchIds : fetches[i].fromGen = CACHE_NAME

C5_InstallNeedsManifest ==
    swState \in {"installed", "activating", "activated"} =>
        /\ installAll = "ok"
        /\ \A u \in CACHE_URLS : store[CACHE_NAME][u] # Undefined

\* What "untouched" means for a fetch event.
Untouched(e) ==
    /\ ~e.responded
    /\ ~e.cacheRead
    /\ e.put = "none"
    /\ e.net = Nothing
    /\ e.answer = Nothing

\* C6 (as claimed): every non-GET request and every request whose scheme is
\* not http or https is left untouched.
C6_NonHttpUntouched ==
    \A i \in FetchIds :
        (fetches[i].req.method # "GET"
            \/ fetches[i].req.url[1] \notin {"http:", "https:"})
        => Untouched(fetches[i])

\* C6 (amended): every non-GET request and every request whose URL starts
\* with chrome-extension:// is left untouched: no respondWith, no cache read,
\* no cache write.
C6_SkippedUntouched ==
    \A i \in FetchIds :
        (fetches[i].req.method # "GET"
            \/ fetches[i].req.url[1] = "chrome-extension:")
        => /\ Untouched(fetches[i])
           /\ fetches[i].pc = "done"

\* A POST and a chrome-extension GET were both dispatched and passed by.
C6_Witness ==
    \E i, j \in FetchIds :
        /\ fetches[i].req.method = "POST"
        /\ fetches[j].req = [method |-> "GET", url |-> ChromeExtUrl]
        /\ fetches[i].pc = "done"
        /\ fetches[j].pc = "done"

\* C28 (as claimed): a cache-first GET that missed the cache and was answered
\* with a cacheable network response has its copy written to the current
\* generation by the time the caller has the response.
C28_StoredBeforeReturned ==
    \A i \in FetchIds :
        (IsCacheFirstGet(fetches[i]) /\ fetches[i].pc = "done"
            /\ fetches[i].matched = Undefined
            /\ fetches[i].net \in NetResponses
            /\ Cacheable(fetches[i].net))
        => /\ fetches[i].put = "written"
           /\ store[CACHE_NAME][fetches[i].req.url] = fetches[i].net

\* C29 (as claimed): the clients are claimed only after the deletions of the
\* clean-up have completed, SERVICE_WORKER_READY is posted only after the
\* claim, and no client was sent it while an earlier generation is stored.
C29_DeleteThenClaimThenReady ==
    /\ claimed => actKeys = "done"
    /\ readyPosted # {} => claimed
    /\ readyPosted # {} => StaleGenerations(cacheKeys) = {}

\* ------------------------------------------------------------------------
\* Notifications: showNotification
\* ------------------------------------------------------------------------

DefaultIcon == "/icons/icon-192x192.png"
DefaultBadge == "/icons/calendar-192x192.png"
VibratePattern == <<200, 100, 200>>

\* The data field of a notification; present is FALSE for undefined, and ""
\* stands for an absent member.
NoCardData == [present |-> FALSE, source |-> "", timestamp |-> ""]

\* A value handed to showNotification; valid is FALSE for null, which has
\* no members to destructure.
Card(title, body, icon, badge, vibrate, data) ==
    [valid |-> TRUE, title |-> title, body |-> body, icon |-> icon,
     badge |-> badge, vibrate |-> vibrate, data |-> data]

NullCard ==
    [valid |-> FALSE, title |-> "", body |-> "", icon |-> "", badge |-> "",
     vibrate |-> <<>>, data |-> NoCardData]

\* The options with every default taking the place of the caller's value.
NormalizeDefaultsWin(nd) ==
    [title |-> nd.title, body |-> nd.body,
     icon |-> DefaultIcon, badge |-> DefaultBadge,
     vibrate |-> VibratePattern,
     data |-> [present |-> TRUE, source |-> nd.data.source, timestamp |-> "now"]]

\* The title and options showNotification passes to the host: the caller's
\* options, icon and badge defaulted, vibrate fixed, data stamped with now.
Normalize(nd) ==
    [title |-> nd.title, body |-> nd.body,
     icon |-> IF nd.icon # "" THEN nd.icon ELSE DefaultIcon,
     badge |-> IF nd.badge # "" THEN nd.badge ELSE DefaultBadge,
     vibrate |-> VibratePattern,
     data |-> [present |-> TRUE, source |-> nd.data.source, timestamp |-> "now"]]

\* How a call showNotification(nd) goes before the host is reached:
\*   "no-registration", "no-capability": a rejected promise is returned;
\*   "type-error": destructuring null throws out of the function;
\*   "host": self.registration.showNotification is called.
ShowOutcome(nd) ==
    IF ~hasRegistration THEN "no-registration"
    ELSE IF ~hasShowCap THEN "no-capability"
    ELSE IF ~nd.valid THEN "type-error"
    ELSE "host"

\* A call of the host's showNotification by event ev of handler src.  state:
\*   "pending" (the host's promise is not settled), "displayed", "rejected",
\*   "threw" (the host threw synchronously; the function returns a rejected
\*   promise).
HostCall(src, ev, nd, sync) ==
    [src |-> src, ev |-> ev, options |-> Normalize(nd), state |-> sync]

\* The promise of a pending host call settles.
HostSettle ==
    /\ \E k \in 1..Len(shown) : \E res \in {"displayed", "rejected"} :
          /\ shown[k].state = "pending"
          /\ shown' = [shown EXCEPT ![k].state = res]
    /\ UNCHANGED <<hasRegistration, hasShowCap, pushes, msgs>>
    /\ NotifFrame

\* ------------------------------------------------------------------------
\* Notifications: message handler
\* ------------------------------------------------------------------------

PlainCard ==
    Card("Reminder", "Standup in 10 minutes", "", "", <<>>, NoCardData)

CustomCard ==
    Card("Reminder", "Standup in 10 minutes", "/custom-icon.png",
         "/custom-badge.png", <<50>>,
         [present |-> TRUE, source |-> "client", timestamp |-> "caller"])

Messages ==
    { [type |-> t, hasNotification |-> TRUE, notification |-> n, hasPort |-> p] :
         t \in {"SHOW_NOTIFICATION", "PING"},
         n \in {PlainCard, CustomCard},
         p \in BOOLEAN }
    \cup
    { [type |-> t, hasNotification |-> FALSE, notification |-> NullCard,
       hasPort |-> p] :
         t \in {"SHOW_NOTIFICATION", "PING"}, p \in BOOLEAN }

\* The condition under which the handler shows a notification.
ShowsForMessage(m) == m.type = "SHOW_NOTIFICATION" /\ m.hasNotification

SuccessReply == [success |-> TRUE, text |-> "Notification shown successfully"]

\* error.message || 'Failed to show notification'; a string given to
\* Promise.reject has no message.
FailureReply(message) ==
    [success |-> FALSE,
     text |-> IF message # "" THEN message ELSE "Failed to show notification"]

\* A message event is dispatched; the handler calls showNotification.
MessageDispatch ==
    /\ Len(msgs) < MaxMsg
    /\ \E m \in Messages : \E sync \in {"pending", "threw"} :
          LET calls == ShowsForMessage(m) /\ ShowOutcome(m.notification) = "host"
          IN
          /\ shown' = IF calls
                      THEN Append(shown, HostCall("message", Len(msgs) + 1,
                                                  m.notification, sync))
                      ELSE shown
          /\ msgs' = Append(msgs,
                [ msg     |-> m,
                  call    |-> IF calls THEN Len(shown) + 1 ELSE 0,
                  result  |-> IF ShowsForMessage(m) THEN "pending" ELSE "none",
                  replies |-> <<>> ])
    /\ UNCHANGED <<hasRegistration, hasShowCap, pushes>>
    /\ NotifFrame

\* The promise returned by showNotification settles; .then() or .catch()
\* posts the reply on event.ports[0] when there is one.
MessageReply ==
    /\ \E i \in 1..Len(msgs) :
          LET c == msgs[i].call
              ok == c # 0 /\ shown[c].state = "displayed"
              reply == IF ok THEN SuccessReply
                       ELSE IF c = 0 THEN FailureReply("")
                       ELSE FailureReply("NotAllowedError")
          IN
          /\ msgs[i].result = "pending"
          /\ c # 0 => shown[c].state # "pending"
          /\ msgs' = [msgs EXCEPT ![i] =
                [@ EXCEPT !.result = IF ok THEN "fulfilled" ELSE "rejected",
                          !.replies = IF msgs[i].msg.hasPort
                                      THEN Append(msgs[i].replies, reply)
                                      ELSE msgs[i].replies]]
    /\ UNCHANGED <<hasRegistration, hasShowCap, shown, pushes>>
    /\ NotifFrame

\* The registration of the worker and what it offers.
HostShapes ==
    { [reg |-> TRUE, cap |-> TRUE],
      [reg |-> TRUE, cap |-> FALSE],
      [reg |-> FALSE, cap |-> FALSE] }

NotifInit ==
    /\ \E h \in HostShapes : hasRegistration = h.reg /\ hasShowCap = h.cap
    /\ shown = <<>>
    /\ pushes = <<>>
    /\ msgs = <<>>

CacheIdle ==
    /\ swState = "activated"
    /\ cacheKeys = <<CACHE_NAME>>
    /\ store = [g \in Gens |-> EmptyCache]
    /\ installAll = "ok"
    /\ actKeys = "done"
    /\ toDelete = {}
    /\ deleted = {}
    /\ actClaim = "done"
    /\ claimed = TRUE
    /\ readyPosted = {}
    /\ fetches = <<>>

MessageInit == NotifInit /\ CacheIdle /\ ClickIdle /\ SubIdle /\ MgrIdle /\ PrefIdle /\ TypesIdle /\ GetIdle /\ SetIdle

MessageNext ==
    \/ MessageDispatch
    \/ HostSettle
    \/ MessageReply

SpecMessage == MessageInit /\ [][MessageNext]_vars

\* ------------------------------------------------------------------------
\* Notifications: properties of the message handler
\* ------------------------------------------------------------------------

MsgIds == 1..Len(msgs)

\* The host calls made for message event i.
CallsOfMessage(i) ==
    {k \in 1..Len(shown) : shown[k].src = "message" /\ shown[k].ev = i}

\* C8: a SHOW_NOTIFICATION message with a notification and a reply port gets
\* at most one reply, and exactly one once the display has settled:
\* {success: true, message} if the host displayed the notification and
\* {success: false, error} if not.  The notification asked of the host carries
\* the caller's icon and badge when given and the defaults when not, the
\* fixed vibration pattern and data.timestamp.  Any other message shows
\* nothing and gets no reply.
C8_MessageReply ==
    \A i \in MsgIds :
        LET e == msgs[i]
            m == e.msg
            asked == m.type = "SHOW_NOTIFICATION" /\ m.hasNotification
            settled == e.result \in {"fulfilled", "rejected"}
            displayed == \E k \in CallsOfMessage(i) : shown[k].state = "displayed"
        IN
        /\ ~asked => (e.replies = <<>> /\ CallsOfMessage(i) = {})
        /\ ~m.hasPort => e.replies = <<>>
        /\ (asked /\ m.hasPort) =>
              /\ Len(e.replies) <= 1
              /\ ~settled => e.replies = <<>>
              /\ settled =>
                   /\ Len(e.replies) = 1
                   /\ e.replies[1].success <=> displayed
                   /\ e.replies[1].success =>
                        e.replies[1].text = "Notification shown successfully"
                   /\ e.replies[1].text # ""
        /\ \A k \in CallsOfMessage(i) :
              /\ shown[k].options.icon =
                    IF m.notification.icon # "" THEN m.notification.icon
                    ELSE "/icons/icon-192x192.png"
              /\ shown[k].options.badge =
                    IF m.notification.badge # "" THEN m.notification.badge
                    ELSE "/icons/calendar-192x192.png"
              /\ shown[k].options.vibrate = <<200, 100, 200>>
              /\ shown[k].options.data.timestamp = "now"
              /\ shown[k].options.title = m.notification.title

\* One message with its own icon was displayed and answered with success,
\* another failed and was answered with an error.
C8_Witness ==
    \E i, j \in MsgIds :
        /\ msgs[i].msg.hasPort /\ msgs[j].msg.hasPort
        /\ msgs[i].msg.notification = CustomCard
        /\ msgs[i].result = "fulfilled"
        /\ msgs[i].replies = <<SuccessReply>>
        /\ msgs[j].result = "rejected"
        /\ Len(msgs[j].replies) = 1
        /\ ~msgs[j].replies[1].success

\* ------------------------------------------------------------------------
\* Notifications: push handler
\* ------------------------------------------------------------------------

\* event.data of a push event: absent, or an object that may offer json()
\* and text().  payload is what the server sent: the text of a JSON object,
\* the JSON text null, a text that is not JSON, or the empty text.
NoPushData ==
    [present |-> FALSE, hasJson |-> FALSE, hasText |-> FALSE, payload |-> "empty"]

PushInputs ==
    {NoPushData} \cup
    { [present |-> TRUE, hasJson |-> j, hasText |-> t, payload |-> p] :
         j \in BOOLEAN, t \in BOOLEAN,
         p \in {"object", "null", "text", "empty"} }

\* JSON.parse / event.data.json() succeed on this payload.
ParsesAsJson(payload) == payload \in {"object", "null"}

\* The value parsed from the payload.
ParsedCard(payload) ==
    IF payload = "object"
    THEN Card("Event soon", "Starts in 1 hour", "", "", <<>>,
              [present |-> TRUE, source |-> "server", timestamp |-> ""])
    ELSE NullCard

\* event.data.text()
PushText(payload) ==
    IF payload = "text" THEN "hello"
    ELSE IF payload = "empty" THEN ""
    ELSE IF payload = "null" THEN "null"
    ELSE "{...}"

TextCard(text) ==
    Card("New Notification",
         IF text # "" THEN text ELSE "You have a new notification",
         DefaultIcon, DefaultBadge, <<>>,
         [present |-> TRUE, source |-> "push-event", timestamp |-> "caller"])

FallbackCard ==
    Card("New Notification", "You have a new notification",
         DefaultIcon, DefaultBadge, <<>>,
         [present |-> TRUE, source |-> "push-event-fallback",
          timestamp |-> "caller"])

ErrorCard ==
    Card("Notification Error", "There was an error showing this notification",
         DefaultIcon, DefaultBadge, <<>>,
         [present |-> TRUE, source |-> "error", timestamp |-> "caller"])

\* The values the handler passes to showNotification, in order.  The handler
\* has no await: it runs to its end when the event is dispatched.  A second
\* call happens only when the first one threw.
PushAttempts(data) ==
    IF ~data.present THEN <<>>
    ELSE IF data.hasJson THEN
        IF ~ParsesAsJson(data.payload) THEN <<ErrorCard>>
        ELSE IF ShowOutcome(ParsedCard(data.payload)) = "type-error"
             THEN <<ParsedCard(data.payload), ErrorCard>>
             ELSE <<ParsedCard(data.payload)>>
    ELSE IF data.hasText THEN
        IF ~ParsesAsJson(data.payload)
        THEN <<TextCard(PushText(data.payload))>>
        ELSE IF ShowOutcome(ParsedCard(data.payload)) = "type-error"
             THEN <<ParsedCard(data.payload), TextCard(PushText(data.payload))>>
             ELSE <<ParsedCard(data.payload)>>
    ELSE <<FallbackCard>>

\* A push event is dispatched.  The promise showNotification returns is
\* neither awaited nor given a .catch().
PushDispatch ==
    /\ Len(pushes) < MaxPush
    /\ \E data \in PushInputs : \E sync \in {"pending", "threw"} :
          LET attempts == PushAttempts(data)
              calls == /\ attempts # <<>>
                       /\ ShowOutcome(attempts[Len(attempts)]) = "host"
          IN
          /\ shown' = IF calls
                      THEN Append(shown, HostCall("push", Len(pushes) + 1,
                                                  attempts[Len(attempts)], sync))
                      ELSE shown
          /\ pushes' = Append(pushes,
                [ data     |-> data,
                  attempts |-> attempts,
                  call     |-> IF calls THEN Len(shown) + 1 ELSE 0 ])
    /\ UNCHANGED <<hasRegistration, hasShowCap, msgs>>
    /\ NotifFrame

PushInit == NotifInit /\ CacheIdle /\ ClickIdle /\ SubIdle /\ MgrIdle /\ PrefIdle /\ TypesIdle /\ GetIdle /\ SetIdle

PushNext ==
    \/ PushDispatch
    \/ HostSettle

SpecPush == PushInit /\ [][PushNext]_vars

PushIds == 1..Len(pushes)

\* C7 (as claimed): every push event ends with a notification shown: once the
\* handler has run and the host has settled, a notification of that event is
\* displayed.
C7_EveryPushShowsNotification ==
    \A i \in PushIds :
        (pushes[i].call = 0 \/ shown[pushes[i].call].state # "pending")
        => (pushes[i].call # 0 /\ shown[pushes[i].call].state = "displayed")

\* ------------------------------------------------------------------------
\* Notifications: notificationclick handler
\* ------------------------------------------------------------------------

\* notification.data of the clicked notification; <<>> is an absent member.
ClickData(present, url, eventId) ==
    [present |-> present, url |-> url, eventId |-> eventId]

ClickInputs ==
    { [action |-> a, data |-> d] :
         a \in {"", "view", "dismiss", "snooze"},
         d \in { ClickData(FALSE, <<>>, <<>>),
                 ClickData(TRUE, <<>>, <<>>),
                 ClickData(TRUE, <<"/", "settings">>, <<>>),
                 ClickData(TRUE, <<>>, <<"1">>),
                 ClickData(TRUE, <<"/", "settings">>, <<"1">>) } }

\* The URL the click leads to.
TargetUrl(data) ==
    IF data.present /\ data.url # <<>> THEN data.url
    ELSE IF data.present /\ data.eventId # <<>>
         THEN <<"/", "event", "/">> \o data.eventId
         ELSE <<"/">>

\* A window client showing the page at path.
Window(path) == [url |-> Origin \o path, canFocus |-> TRUE]

\* The windows open when the first click arrives.
OpenWindows ==
    { <<>>,
      <<Window(<<"/">>)>>,
      <<Window(<<"/", "settings">>)>>,
      <<Window(<<"/", "event", "/", "1", "2">>)>>,
      <<Window(<<"/", "settings">>), Window(<<"/", "event", "/", "1">>)>> }

\* for (const client of clientList): the first client the loop returns on,
\* 0 when it returns on none.
FirstMatching(clientList, url) ==
    LET hits == {k \in 1..Len(clientList) :
                    Includes(clientList[k].url, url) /\ clientList[k].canFocus}
    IN IF hits = {} THEN 0 ELSE Min(hits)

\* The synchronous part of the handler: the notification is closed, the URL
\* resolved and, for the view and default actions, matchAll requested.
ClickDispatch ==
    /\ Len(clicks) < MaxClick
    /\ \E ev \in ClickInputs :
          clicks' = Append(clicks,
             [ ev         |-> ev,
               effects    |-> <<"close">>,
               url        |-> TargetUrl(ev.data),
               pc         |-> IF ev.action = "view" \/ ev.action = ""
                              THEN "matchAll" ELSE "done",
               clientList |-> <<>>,
               focused    |-> 0,
               opened     |-> <<>> ])
    /\ UNCHANGED <<clients, hasOpenWindow>>
    /\ ClickFrame

\* clients.matchAll({type: 'window'}) resolves: the first matching window is
\* focused, or a new window is opened.
ClickMatchAll ==
    /\ \E i \in 1..Len(clicks) :
          LET c == clicks[i]
              k == FirstMatching(clients, c.url)
          IN
          /\ c.pc = "matchAll"
          /\ IF k # 0
             THEN /\ clicks' = [clicks EXCEPT ![i] =
                        [@ EXCEPT !.pc = "done", !.clientList = clients,
                                  !.focused = k,
                                  !.effects = Append(c.effects, "focus")]]
                  /\ clients' = clients
             ELSE IF hasOpenWindow
             THEN /\ clicks' = [clicks EXCEPT ![i] =
                        [@ EXCEPT !.pc = "done", !.clientList = clients,
                                  !.opened = <<c.url>>,
                                  !.effects = Append(c.effects, "open")]]
                  /\ clients' = Append(clients, Window(c.url))
             ELSE /\ clicks' = [clicks EXCEPT ![i] =
                        [@ EXCEPT !.pc = "done", !.clientList = clients]]
                  /\ clients' = clients
    /\ UNCHANGED hasOpenWindow
    /\ ClickFrame

ClickInit ==
    /\ clients \in OpenWindows
    /\ hasOpenWindow = TRUE
    /\ clicks = <<>>
    /\ CacheIdle
    /\ NotifIdle
    /\ SubIdle
    /\ MgrIdle
    /\ PrefIdle
    /\ TypesIdle
    /\ GetIdle
    /\ SetIdle

ClickNext ==
    \/ ClickDispatch
    \/ ClickMatchAll

SpecClick == ClickInit /\ [][ClickNext]_vars

ClickIds == 1..Len(clicks)

\* C9 (as claimed): the notification is closed first; the target is data.url,
\* else the URL of data.eventId, else '/'; for the default and view actions a
\* window that already shows the target is focused and none is opened, and
\* otherwise exactly one window is opened at the target; any other action
\* only closes the notification.
C9_FocusOrOpenTarget ==
    \A i \in ClickIds :
        LET c == clicks[i]
            d == c.ev.data
            showing == {k \in 1..Len(c.clientList) :
                           c.clientList[k].url = Origin \o c.url}
        IN
        /\ c.effects[1] = "close"
        /\ c.url = IF d.present /\ d.url # <<>> THEN d.url
                   ELSE IF d.present /\ d.eventId # <<>>
                        THEN <<"/", "event", "/">> \o d.eventId
                        ELSE <<"/">>
        /\ c.pc = "done" =>
              IF c.ev.action \in {"", "view"}
              THEN IF showing # {}
                   THEN c.focused \in showing /\ c.opened = <<>>
                   ELSE c.focused = 0 /\ c.opened = <<c.url>>
              ELSE c.focused = 0 /\ c.opened = <<>> /\ c.effects = <<"close">>

\* ------------------------------------------------------------------------
\* Subscription Manager: subscribeToPushNotifications
\* ------------------------------------------------------------------------

\* The browsers the client runs in: one with every capability, Brave, and
\* one for each capability that can be missing.
Platforms ==
    LET full == [serviceWorker |-> TRUE, pushManager |-> TRUE,
                 notification |-> TRUE, regPushManager |-> TRUE,
                 brave |-> FALSE]
    IN { full,
         [full EXCEPT !.brave = TRUE],
         [full EXCEPT !.serviceWorker = FALSE],
         [full EXCEPT !.pushManager = FALSE],
         [full EXCEPT !.notification = FALSE],
         [full EXCEPT !.regPushManager = FALSE] }

\* isSupported()
IsSupported ==
    platform.serviceWorker /\ platform.pushManager /\ platform.notification

\* isBraveBrowser()
IsBrave == platform.brave

UserEmails == {"", "user@example.com"}

\* The existing-subscription check never returning early.
ReturnsExistingNever(sub) == FALSE

\* if (subscription) return subscription;
ReturnsExisting(sub) == sub # 0

\* The errors pushManager.subscribe rejects with.
HostErrors ==
    { "AbortError: Registration failed - push service error",
      "NotAllowedError: Registration failed - permission denied" }

\* errorMsg.includes('push service error')
MentionsPushServiceError(message) ==
    message = "AbortError: Registration failed - push service error"

\* The outer catch: the message of the error it throws on.
OuterCatch(message) ==
    IF IsBrave /\ MentionsPushServiceError(message)
    THEN "Brave blocked push notification subscription. Please disable Shields for this site and try again."
    ELSE message

\* The message of the error thrown when pushManager.subscribe failed.
SubscribeErrorMessage ==
    IF IsBrave
    THEN "Failed to subscribe to push notifications. Please check Brave browser settings and try again."
    ELSE "Failed to subscribe to push notifications. Please check browser permissions."

\* A call that ended by throwing to its caller.
Threw(call, message) ==
    [call EXCEPT !.pc = "done", !.result = "threw",
                 !.error = OuterCatch(message)]

\* A call that ended by returning a subscription.
Returned(call, endpoint) ==
    [call EXCEPT !.pc = "done", !.result = "returned", !.value = endpoint]

\* The calls that have ended.
DoneCalls == {i \in 1..Len(subCalls) : subCalls[i].pc = "done"}

\* What the server's answer to GET /api/notifications/vapid-public-key can
\* be: the fetch fails, or it gives a status and a body.  The bodies:
\*   "envelope"          {success: true, publicKey: <a base64url key>}
\*   "envelope-bad-key"  {success: true, publicKey: <text atob rejects>}
\*   "no-success"        {success: false, publicKey: <a key>}
\*   "no-key"            {success: true}
\*   "not-json"          a page of HTML
VapidStatuses == {200, 201, 500}

VapidBodies ==
    {"envelope", "envelope-bad-key", "no-success", "no-key", "not-json"}

NoVapidResponse == [net |-> "none", status |-> 0, body |-> "none"]

VapidResponses ==
    { [net |-> "failed", status |-> 0, body |-> "none"] } \cup
    { [net |-> "ok", status |-> st, body |-> b] :
         st \in VapidStatuses, b \in VapidBodies }

\* response.ok
ResponseOk(status) == status >= 200 /\ status <= 299

\* responseData?.success && responseData.publicKey
EnvelopeHasKey(body) == body \in {"envelope", "envelope-bad-key"}

\* getVapidPublicKey with the status of the response left unchecked.
GetVapidPublicKeyAnyStatus(resp) ==
    IF resp.net # "ok" THEN "none"
    ELSE IF resp.body = "not-json" THEN "none"
    ELSE IF EnvelopeHasKey(resp.body)
         THEN (IF resp.body = "envelope" THEN "valid" ELSE "malformed")
         ELSE "none"

\* getVapidPublicKey(): "none" for null, else the key: "valid", or
\* "malformed" for a key urlBase64ToUint8Array throws on.
GetVapidPublicKey(resp) ==
    IF resp.net # "ok" THEN "none"                  \* fetch rejected
    ELSE IF ~ResponseOk(resp.status) THEN "none"    \* HTTP error!
    ELSE IF resp.body = "not-json" THEN "none"      \* Invalid JSON response
    ELSE IF EnvelopeHasKey(resp.body)
         THEN (IF resp.body = "envelope" THEN "valid" ELSE "malformed")
         ELSE "none"

\* The code up to the first host call: the capability checks, and
\* requestNotificationPermission as far as Notification.requestPermission().
SubStartUpTo(limit) ==
    /\ Len(subCalls) < limit
    /\ \E email \in UserEmails :
          LET call == [ email      |-> email,
                        after      |-> DoneCalls,  \* calls that ended before this one began
                        pc         |-> "permission",
                        query      |-> "none",     \* outcome of getSubscription()
                        vapid      |-> NoVapidResponse,  \* answer to the VAPID key request
                        key        |-> "",         \* result of getVapidPublicKey()
                        subscribes |-> 0,          \* calls of pushManager.subscribe
                        cause      |-> "",         \* error of the last failed pushManager.subscribe
                        posts      |-> 0,          \* POSTs sent to the server
                        postResult |-> "none",     \* "none" | "ok" | "failed"
                        result     |-> "none",
                        value      |-> 0,
                        error      |-> "" ]
          IN subCalls' = Append(subCalls,
                IF ~platform.serviceWorker
                THEN Threw(call, "Service workers are not supported in this browser")
                ELSE IF ~platform.pushManager
                THEN Threw(call, "Push notifications are not supported in this browser")
                ELSE IF ~IsSupported
                THEN Threw(call, "Notification permission not granted")
                ELSE call)
    /\ UNCHANGED <<platform, permission, hostSub, endpoints, inFlight, serverPosts>>
    /\ SubFrame

\* Notification.requestPermission() settles.  The browser asks the user only
\* while the permission is "default" and keeps a grant or a denial; a
\* dismissed prompt leaves "default", and a rejection counts as 'denied'.
SubPermission ==
    /\ \E i \in 1..Len(subCalls) :
       \E answer \in {"granted", "denied", "default", "rejects"} :
          LET got == IF permission = "default" THEN answer ELSE permission
          IN
          /\ subCalls[i].pc = "permission"
          /\ permission' = IF got \in {"granted", "denied"} THEN got
                           ELSE permission
          /\ subCalls' = [subCalls EXCEPT ![i] =
                IF got = "granted"
                THEN [@ EXCEPT !.pc = "ready"]
                ELSE Threw(@, "Notification permission not granted")]
    /\ UNCHANGED <<platform, hostSub, endpoints, inFlight, serverPosts>>
    /\ SubFrame

\* How navigator.serviceWorker.ready settles: the host resolves it once the
\* registration has an active worker and never rejects it, so the catch
\* around the await is not entered.
ReadyOutcomes == {"resolves"}

\* navigator.serviceWorker.ready settles; registration.pushManager is tested
\* and getSubscription() requested.
SubReady ==
    /\ \E i \in 1..Len(subCalls) : \E outcome \in ReadyOutcomes :
          /\ subCalls[i].pc = "ready"
          /\ subCalls' = [subCalls EXCEPT ![i] =
                IF outcome # "resolves"
                THEN Threw(@, "Failed to initialize service worker")
                ELSE IF ~platform.regPushManager
                THEN Threw(@, "PushManager not available in service worker")
                ELSE [@ EXCEPT !.pc = "query"]]
    /\ UNCHANGED <<platform, permission, hostSub, endpoints, inFlight, serverPosts>>
    /\ SubFrame

\* registration.pushManager.getSubscription() settles.  An existing
\* subscription is returned; with none, or when the query failed, the call
\* goes on to getVapidPublicKey().
SubQuery ==
    /\ \E i \in 1..Len(subCalls) : \E ok \in BOOLEAN :
          /\ subCalls[i].pc = "query"
          /\ subCalls' = [subCalls EXCEPT ![i] =
                IF ok /\ ReturnsExisting(hostSub)
                THEN Returned([@ EXCEPT !.query = "ok"], hostSub)
                ELSE [@ EXCEPT !.query = IF ok THEN "ok" ELSE "error",
                               !.pc = "vapid"]]
    /\ UNCHANGED <<platform, permission, hostSub, endpoints, inFlight, serverPosts>>
    /\ SubFrame

\* getVapidPublicKey() settles with no key, a key that cannot be decoded, or
\* a key.  With a key, pushManager.subscribe is called: at once, or in Brave
\* after a delay.
SubVapidFrom(responses) ==
    /\ \E i \in 1..Len(subCalls) : \E resp \in responses :
          LET key == GetVapidPublicKey(resp)
              call == [subCalls[i] EXCEPT !.vapid = resp, !.key = key]
          IN
          /\ subCalls[i].pc = "vapid"
          /\ subCalls' = [subCalls EXCEPT ![i] =
                IF key = "none"
                THEN Threw(call, "Failed to get VAPID public key")
                ELSE IF key = "malformed"
                THEN Threw(call, "Invalid VAPID public key format")
                ELSE IF IsBrave
                THEN [call EXCEPT !.pc = "delay"]
                ELSE [call EXCEPT !.pc = "subscribing",
                                  !.subscribes = @ + 1]]
          /\ inFlight' = IF key = "valid" /\ ~IsBrave
                         THEN inFlight + 1 ELSE inFlight
    /\ UNCHANGED <<platform, permission, hostSub, endpoints, serverPosts>>
    /\ SubFrame

SubStart == SubStartUpTo(MaxCalls)

\* One answer of the server for each result of getVapidPublicKey().
KeyResponses ==
    { [net |-> "ok", status |-> 200, body |-> "envelope"],
      [net |-> "ok", status |-> 200, body |-> "envelope-bad-key"],
      [net |-> "failed", status |-> 0, body |-> "none"] }

SubVapid == SubVapidFrom(KeyResponses)

\* The same two steps with every answer of the server tried.
KeyStart == SubStartUpTo(MaxKeyCalls)

KeyVapid == SubVapidFrom(VapidResponses)

\* Brave: the 500 ms timer fires and pushManager.subscribe is called.
SubDelay ==
    /\ \E i \in 1..Len(subCalls) :
          /\ subCalls[i].pc = "delay"
          /\ subCalls' = [subCalls EXCEPT ![i] =
                [@ EXCEPT !.pc = "subscribing", !.subscribes = @ + 1]]
    /\ inFlight' = inFlight + 1
    /\ UNCHANGED <<platform, permission, hostSub, endpoints, serverPosts>>
    /\ SubFrame

\* pushManager.subscribe() settles.  The push service keeps one subscription
\* per registration: it gives the one it holds, or creates one.  Then the
\* subscription is sent to the server, unless the e-mail is missing.
SubHostDone ==
    /\ \E i \in 1..Len(subCalls) : \E outcome \in {"ok"} \cup HostErrors :
          LET endpoint == IF hostSub # 0 THEN hostSub ELSE endpoints + 1
              ok == outcome = "ok"
          IN
          /\ subCalls[i].pc = "subscribing"
          /\ inFlight' = inFlight - 1
          /\ IF ~ok
             THEN /\ subCalls' = [subCalls EXCEPT ![i] =
                        Threw([@ EXCEPT !.cause = outcome],
                              SubscribeErrorMessage)]
                  /\ UNCHANGED <<hostSub, endpoints, serverPosts>>
             ELSE /\ hostSub' = endpoint
                  /\ endpoints' = IF hostSub # 0 THEN endpoints ELSE endpoints + 1
                  /\ IF subCalls[i].email = ""
                     THEN /\ subCalls' = [subCalls EXCEPT ![i] =
                                Returned(@, endpoint)]
                          /\ serverPosts' = serverPosts
                     ELSE /\ subCalls' = [subCalls EXCEPT ![i] =
                                [@ EXCEPT !.pc = "posting", !.value = endpoint,
                                          !.posts = @ + 1]]
                          /\ serverPosts' = Append(serverPosts,
                                [endpoint |-> endpoint,
                                 email |-> subCalls[i].email])
    /\ UNCHANGED <<platform, permission>>
    /\ SubFrame

\* A failed POST escalated to the caller.
AfterPostEscalates(call, ok) ==
    IF ok THEN Returned(call, call.value)
    ELSE Threw(call, "Request failed with status code 500")

\* The end of the server sync: return subscription, after the POST as well
\* as in catch (apiError).
AfterPost(call, ok) == Returned(call, call.value)

\* api.post('/api/users/me/push-subscriptions') settles; the subscription is
\* returned whether it succeeded or not.
SubPostDone ==
    /\ \E i \in 1..Len(subCalls) : \E ok \in BOOLEAN :
          /\ subCalls[i].pc = "posting"
          /\ subCalls' = [subCalls EXCEPT ![i] =
                AfterPost([@ EXCEPT !.postResult = IF ok THEN "ok" ELSE "failed"],
                          ok)]
    /\ UNCHANGED <<platform, permission, hostSub, endpoints, inFlight, serverPosts>>
    /\ SubFrame

SubInit ==
    /\ platform \in Platforms
    /\ permission \in {"default", "granted", "denied"}
    /\ hostSub = 0
    /\ endpoints = 0
    /\ inFlight = 0
    /\ serverPosts = <<>>
    /\ subCalls = <<>>
    /\ CacheIdle
    /\ NotifIdle
    /\ ClickIdle
    /\ MgrIdle
    /\ PrefIdle
    /\ TypesIdle
    /\ GetIdle
    /\ SetIdle

SubNext ==
    \/ SubStart
    \/ SubPermission
    \/ SubReady
    \/ SubQuery
    \/ SubVapid
    \/ SubDelay
    \/ SubHostDone
    \/ SubPostDone

SpecSub == SubInit /\ [][SubNext]_vars

KeyNext ==
    \/ KeyStart
    \/ SubPermission
    \/ SubReady
    \/ SubQuery
    \/ KeyVapid
    \/ SubDelay
    \/ SubHostDone
    \/ SubPostDone

SpecKey == SubInit /\ [][KeyNext]_vars

\* ------------------------------------------------------------------------
\* Subscription Manager: unsubscribeFromPushNotifications, isSubscribed
\* ------------------------------------------------------------------------

MgrOps == {"unsubscribe", "isSubscribed"}

\* A call that ended by returning a boolean.
MgrReturned(call, value) ==
    [call EXCEPT !.pc = "done", !.result = "returned", !.value = value]

\* A failure inside the try of the call: unsubscribeFromPushNotifications
\* rethrows it, isSubscribed returns false.
MgrFailed(call) ==
    IF call.op = "unsubscribe"
    THEN [call EXCEPT !.pc = "done", !.result = "threw"]
    ELSE MgrReturned(call, FALSE)

\* The call begins: if (!this.isSupported()) return false; then
\* navigator.serviceWorker.ready is awaited.
MgrStart ==
    /\ Len(mgrCalls) < MaxMgrCalls
    /\ \E op \in MgrOps :
          LET call == [ op           |-> op,
                        pc           |-> "ready",
                        query        |-> "none",   \* outcome of getSubscription()
                        held         |-> 0,        \* what the host held at the query
                        sub          |-> 0,        \* endpoint of the subscription read
                        effects      |-> <<>>,     \* requests made, in order
                        hostResult   |-> "none",   \* outcome of subscription.unsubscribe()
                        deleteResult |-> "none",   \* outcome of the DELETE
                        result       |-> "none",
                        value        |-> FALSE ]
          IN mgrCalls' = Append(mgrCalls,
                IF ~IsSupported THEN MgrReturned(call, FALSE) ELSE call)
    /\ UNCHANGED <<subVars, serverDeletes>>
    /\ MgrFrame

\* navigator.serviceWorker.ready settles and getSubscription() is requested
\* of registration.pushManager; without a pushManager that is a TypeError.
MgrReady ==
    /\ \E i \in 1..Len(mgrCalls) : \E outcome \in ReadyOutcomes :
          /\ mgrCalls[i].pc = "ready"
          /\ mgrCalls' = [mgrCalls EXCEPT ![i] =
                IF outcome # "resolves" \/ ~platform.regPushManager
                THEN MgrFailed(@)
                ELSE [@ EXCEPT !.pc = "query"]]
    /\ UNCHANGED <<subVars, serverDeletes>>
    /\ MgrFrame

\* isSubscribed answering from something other than the subscription read.
IsSubscribedResultStale(sub) == TRUE

\* The end of isSubscribed: return subscription !== null.
IsSubscribedResult(sub) == sub # 0

\* registration.pushManager.getSubscription() settles.  isSubscribed returns
\* whether there is one; unsubscribeFromPushNotifications returns false when
\* there is none and else requests subscription.unsubscribe().
MgrQuery ==
    /\ \E i \in 1..Len(mgrCalls) : \E ok \in BOOLEAN :
          LET c == [mgrCalls[i] EXCEPT !.held = hostSub] IN
          /\ mgrCalls[i].pc = "query"
          /\ mgrCalls' = [mgrCalls EXCEPT ![i] =
                IF ~ok THEN MgrFailed([c EXCEPT !.query = "error"])
                ELSE LET q == [c EXCEPT !.query = "ok", !.sub = hostSub] IN
                     IF c.op = "isSubscribed"
                     THEN MgrReturned(q, IsSubscribedResult(hostSub))
                     ELSE IF hostSub = 0
                     THEN MgrReturned(q, FALSE)
                     ELSE [q EXCEPT !.pc = "unsubscribing",
                                    !.effects = Append(@, "unsubscribe")]]
    /\ UNCHANGED <<subVars, serverDeletes>>
    /\ MgrFrame

\* subscription.unsubscribe() settles.  When it resolves the host no longer
\* holds the subscription and the DELETE with its endpoint is sent; when it
\* rejects the call throws.
UnsubHostDone ==
    /\ \E i \in 1..Len(mgrCalls) : \E outcome \in {"resolves", "rejects"} :
          LET c == mgrCalls[i] IN
          /\ c.pc = "unsubscribing"
          /\ IF outcome = "rejects"
             THEN /\ mgrCalls' = [mgrCalls EXCEPT ![i] =
                        MgrFailed([c EXCEPT !.hostResult = "rejects"])]
                  /\ UNCHANGED <<hostSub, serverDeletes>>
             ELSE /\ hostSub' = IF hostSub = c.sub THEN 0 ELSE hostSub
                  /\ mgrCalls' = [mgrCalls EXCEPT ![i] =
                        [c EXCEPT !.pc = "deleting",
                                  !.hostResult = "resolves",
                                  !.effects = Append(@, "DELETE")]]
                  /\ serverDeletes' = Append(serverDeletes, c.sub)
    /\ UNCHANGED <<platform, permission, endpoints, inFlight, serverPosts, subCalls>>
    /\ MgrFrame

\* A failed DELETE turned into a negative result.
AfterDeleteReportsFailure(call, ok) == MgrReturned(call, ok)

\* The end of the server notification: return true, after the fetch as well
\* as after catch (apiError).
AfterDelete(call, ok) == MgrReturned(call, TRUE)

\* The DELETE settles.
UnsubDeleteDone ==
    /\ \E i \in 1..Len(mgrCalls) : \E ok \in BOOLEAN :
          /\ mgrCalls[i].pc = "deleting"
          /\ mgrCalls' = [mgrCalls EXCEPT ![i] =
                AfterDelete([@ EXCEPT !.deleteResult =
                                IF ok THEN "ok" ELSE "failed"], ok)]
    /\ UNCHANGED <<subVars, serverDeletes>>
    /\ MgrFrame

\* A subscription is held only by a browser that has every capability.
MgrInit ==
    /\ platform \in Platforms
    /\ permission = "granted"
    /\ hostSub \in {0, 1}
    /\ hostSub # 0 => (IsSupported /\ platform.regPushManager)
    /\ endpoints = hostSub
    /\ inFlight = 0
    /\ serverPosts = <<>>
    /\ subCalls = <<>>
    /\ MgrIdle
    /\ PrefIdle
    /\ TypesIdle
    /\ GetIdle
    /\ SetIdle
    /\ CacheIdle
    /\ NotifIdle
    /\ ClickIdle

MgrNext ==
    \/ MgrStart
    \/ MgrReady
    \/ MgrQuery
    \/ UnsubHostDone
    \/ UnsubDeleteDone

SpecMgr == MgrInit /\ [][MgrNext]_vars

\* ------------------------------------------------------------------------
\* Subscription Manager: properties
\* ------------------------------------------------------------------------

\* Call j began after call i had ended: the two calls are in sequence.
InSequence(i, j) ==
    /\ i \in 1..Len(subCalls)
    /\ j \in 1..Len(subCalls)
    /\ i < j
    /\ i \in subCalls[j].after

\* C10 (as claimed, for a first call that returned a subscription): of two
\* calls in sequence the second returns a subscription with the same
\* endpoint, pushManager.subscribe is invoked at most once in total and the
\* second call sends no POST.
C10_SubscribeIdempotent ==
    \A i, j \in 1..Len(subCalls) :
        (InSequence(i, j) /\ subCalls[i].result = "returned"
            /\ subCalls[j].pc = "done")
        => /\ subCalls[j].result = "returned"
           /\ subCalls[j].value = subCalls[i].value
           /\ subCalls[i].subscribes + subCalls[j].subscribes <= 1
           /\ subCalls[j].posts = 0

\* C10 (amended): when the first call returned a subscription and the
\* getSubscription query of the second call succeeds, the second call returns
\* a subscription with the same endpoint, calls pushManager.subscribe not at
\* all (so at most one call in total) and sends no POST.
C10_IdempotentWhenQuerySucceeds ==
    \A i, j \in 1..Len(subCalls) :
        (InSequence(i, j) /\ subCalls[i].result = "returned"
            /\ subCalls[j].query = "ok")
        => /\ subCalls[j].pc = "done"
           /\ subCalls[j].result = "returned"
           /\ subCalls[j].value = subCalls[i].value
           /\ subCalls[j].subscribes = 0
           /\ subCalls[i].subscribes + subCalls[j].subscribes <= 1
           /\ subCalls[j].posts = 0

\* The first call subscribed at the host and posted to the server; the
\* second, begun after it, found the subscription and returned it.
C10_Witness ==
    \E i, j \in 1..Len(subCalls) :
        /\ InSequence(i, j)
        /\ subCalls[i].result = "returned"
        /\ subCalls[i].subscribes = 1
        /\ subCalls[i].posts = 1
        /\ subCalls[j].result = "returned"
        /\ subCalls[j].query = "ok"
        /\ subCalls[j].value = subCalls[i].value
        /\ Len(serverPosts) = 1

\* ------------------------------------------------------------------------
\* Subscription Manager: attempts at the push host
\* ------------------------------------------------------------------------

\* The attempt count the retry is configured with: isBrave ? 5 : 3.
ConfiguredAttempts == IF IsBrave THEN 5 ELSE 3

\* The calls that ended because pushManager.subscribe failed.
HostFailedCalls ==
    {i \in 1..Len(subCalls) :
        subCalls[i].pc = "done" /\ subCalls[i].cause # ""}

\* C11 (as claimed): a call that surfaces the failure of the push host has
\* called pushManager.subscribe exactly N times, N the configured attempt
\* count; a call that returned a subscription called it at most N times.
C11_RetryBound ==
    /\ \A i \in HostFailedCalls :
          subCalls[i].subscribes = ConfiguredAttempts
    /\ \A i \in 1..Len(subCalls) :
          subCalls[i].result = "returned"
          => subCalls[i].subscribes <= ConfiguredAttempts

\* C12 (as claimed): when pushManager.subscribe failed, the error the call
\* throws is the error of the last failed attempt.
C12_LastErrorSurfaced ==
    \A i \in HostFailedCalls :
        /\ subCalls[i].result = "threw"
        /\ subCalls[i].error = subCalls[i].cause

\* ------------------------------------------------------------------------
\* Subscription Manager: server sync
\* ------------------------------------------------------------------------

\* The calls to which the push host has given a subscription.
HostGaveCalls ==
    {i \in 1..Len(subCalls) :
        /\ subCalls[i].pc \in {"posting", "done"}
        /\ subCalls[i].subscribes > 0
        /\ subCalls[i].cause = ""}

\* C13: once the push host has given a subscription, the call does not
\* throw and, when it ends, returns that subscription, whether the POST
\* succeeded, failed or was not sent for want of an e-mail; the host goes on
\* holding the same subscription.
C13_PartialSuccess ==
    \A i \in HostGaveCalls :
        LET c == subCalls[i] IN
        /\ c.result # "threw"
        /\ c.value # 0
        /\ hostSub = c.value
        /\ c.pc = "done" => (c.result = "returned" /\ c.error = "")
        /\ c.email = "" => (c.posts = 0 /\ c.postResult = "none")
        /\ c.postResult # "none" => c.pc = "done"

\* One call returned its subscription after a failed POST, another without
\* sending a POST.
C13_Witness ==
    \E i, j \in HostGaveCalls :
        /\ subCalls[i].result = "returned"
        /\ subCalls[i].postResult = "failed"
        /\ subCalls[j].result = "returned"
        /\ subCalls[j].email = ""
        /\ subCalls[j].posts = 0
        /\ hostSub = subCalls[i].value

\* ------------------------------------------------------------------------
\* Subscription Manager: VAPID key
\* ------------------------------------------------------------------------

\* The calls whose getVapidPublicKey() has settled.
KeyedCalls == {i \in 1..Len(subCalls) : subCalls[i].key # ""}

\* Without a key the call fails, with no pushManager.subscribe and no POST.
NoKeyNoSubscribe(c) ==
    c.key = "none" =>
        /\ c.pc = "done"
        /\ c.result = "threw"
        /\ c.error = "Failed to get VAPID public key"
        /\ c.subscribes = 0
        /\ c.posts = 0

\* C14 (as claimed): getVapidPublicKey gives no key for a response whose
\* status is not 200, a body that does not parse, or an envelope without
\* success and publicKey; and without a key the call fails with no
\* pushManager.subscribe and no POST.
C14_NoKeyUnless200 ==
    \A i \in KeyedCalls :
        LET c == subCalls[i] IN
        /\ (c.vapid.net # "ok" \/ c.vapid.status # 200
               \/ c.vapid.body \notin {"envelope", "envelope-bad-key"})
           => c.key = "none"
        /\ NoKeyNoSubscribe(c)

\* C14 (amended): as above with "status outside 200..299" for "not 200".
C14_NoKeyUnlessOk ==
    \A i \in KeyedCalls :
        LET c == subCalls[i] IN
        /\ (c.vapid.net # "ok" \/ c.vapid.status < 200 \/ c.vapid.status > 299
               \/ c.vapid.body \notin {"envelope", "envelope-bad-key"})
           => c.key = "none"
        /\ NoKeyNoSubscribe(c)

\* A call was answered 500 with a well-formed envelope, got no key and threw
\* without reaching the push host.
C14_Witness ==
    \E i \in KeyedCalls :
        /\ subCalls[i].vapid.status = 500
        /\ subCalls[i].vapid.body = "envelope"
        /\ subCalls[i].key = "none"
        /\ subCalls[i].pc = "done"
        /\ subCalls[i].result = "threw"
        /\ subCalls[i].subscribes = 0

\* ------------------------------------------------------------------------
\* Subscription Manager: properties of unsubscribe and isSubscribed
\* ------------------------------------------------------------------------

UnsubCalls ==
    {i \in 1..Len(mgrCalls) : mgrCalls[i].op = "unsubscribe"}

CheckCalls ==
    {i \in 1..Len(mgrCalls) : mgrCalls[i].op = "isSubscribed"}

\* With a subscription read from the host: subscription.unsubscribe() is
\* requested first and the DELETE with that endpoint only after it resolved;
\* once the DELETE is sent the call returns true whatever becomes of it, and
\* the host no longer holds the subscription.
UnsubscribesThenNotifies(c) ==
    /\ c.effects \in {<<"unsubscribe">>, <<"unsubscribe", "DELETE">>}
    /\ c.effects = <<"unsubscribe", "DELETE">> =>
          /\ c.hostResult = "resolves"
          /\ hostSub # c.sub
          /\ \E k \in 1..Len(serverDeletes) : serverDeletes[k] = c.sub
    /\ c.deleteResult # "none" =>
          /\ c.pc = "done"
          /\ c.result = "returned"
          /\ c.value = TRUE

CheckStep ==
    \E i \in CheckCalls :
        /\ i \in 1..Len(mgrCalls')
        /\ mgrCalls'[i] # mgrCalls[i]

\* C16: isSubscribed does not throw; it returns true exactly when its query
\* of the host resolved with a subscription, so false when the platform is
\* unsupported or the registration or the query failed; and its steps leave
\* the host's subscription and the server alone.
C16_IsSubscribedFreshRead ==
    /\ [](\A i \in CheckCalls :
            LET c == mgrCalls[i] IN
            /\ c.result # "threw"
            /\ c.effects = <<>>
            /\ c.pc = "done" =>
                  /\ c.result = "returned"
                  /\ c.value = (c.query = "ok" /\ c.held # 0))
    /\ [][CheckStep => UNCHANGED <<subVars, serverDeletes>>]_vars

\* After an unsubscribe removed the subscription, isSubscribed read the host
\* anew and returned false; before, another call had returned true.
C16_Witness ==
    \E i, j \in CheckCalls : \E u \in UnsubCalls :
        /\ mgrCalls[i].pc = "done" /\ mgrCalls[i].value = TRUE
        /\ mgrCalls[u].hostResult = "resolves"
        /\ mgrCalls[j].pc = "done" /\ mgrCalls[j].query = "ok"
        /\ mgrCalls[j].value = FALSE

\* ------------------------------------------------------------------------
\* Subscription Manager: unsupported platform, concurrent calls
\* ------------------------------------------------------------------------

\* C17 (as claimed, for subscribeToPushNotifications): on a platform that
\* lacks a required capability the call does not throw to its caller.
C17_UnsupportedNeverThrows ==
    \A i \in 1..Len(subCalls) :
        ~IsSupported => subCalls[i].result # "threw"

\* C18 (as claimed): never are two calls of pushManager.subscribe in flight at
\* once, and the calls that return a subscription return the same endpoint.
C18_OneAttemptOutstanding ==
    /\ inFlight <= 1
    /\ \A i, j \in 1..Len(subCalls) :
          (subCalls[i].result = "returned" /\ subCalls[j].result = "returned")
          => subCalls[i].value = subCalls[j].value

\* ------------------------------------------------------------------------
\* Preference Manager: getEventPreferences
\* ------------------------------------------------------------------------

\* The stored per-type preference sets: for each choice of "on", "off" or
\* "absent" per type, the records of the types that are not absent.
StoredFor(choice) ==
    LET Kept(t) == choice[t] # "absent"
        kept == SelectSeq(TypeOrder, Kept)
    IN [k \in 1..Len(kept) |->
          [event_type |-> kept[k], is_enabled |-> choice[kept[k]] = "on"]]

StoredSets ==
    {StoredFor(choice) : choice \in [EventTypes -> {"on", "off", "absent"}]}

\* The candidate lists: the distinct types of the events on screen.
CandidateLists ==
    {c \in UNION {[1..n -> EventTypes] : n \in 0..MaxTypes} :
        \A i, j \in 1..Len(c) : c[i] = c[j] => i = j}

\* The preference records of the server: the canonical and the legacy shape,
\* with notifyAllEvents true, false or missing.
PrefsAnswers ==
    {[kind |-> k, notifyAllEvents |-> v] :
        k \in {"canonical", "legacy"}, v \in {"true", "false", "absent"}}

\* prefs.notifyAllEvents as getPreferences() gives it: true when the request
\* failed; oldPrefs.notifyAllEvents !== false for a legacy record; the
\* record's value over the default true for a canonical one.
NotifyAllEventsRead(answer, failed) ==
    IF failed THEN TRUE
    ELSE IF answer.kind = "legacy" THEN answer.notifyAllEvents # "false"
    ELSE IF answer.notifyAllEvents = "absent" THEN TRUE
    ELSE answer.notifyAllEvents = "true"

\* prefMap.has(eventType)
HasStored(existing, eventType) ==
    \E k \in 1..Len(existing) : existing[k].event_type = eventType

\* prefMap.get(eventType): the last record set for the type.
StoredValue(existing, eventType) ==
    LET ks == {k \in 1..Len(existing) : existing[k].event_type = eventType}
        last == CHOOSE k \in ks : \A j \in ks : j <= k
    IN existing[last].is_enabled

\* The merge with the global flag consulted before the stored record.
EffectiveEnabledFlagFirst(existing, eventType, notifyAll) ==
    IF ~notifyAll THEN FALSE
    ELSE IF HasStored(existing, eventType)
         THEN StoredValue(existing, eventType)
         ELSE notifyAll

\* is_enabled of one candidate type.
EffectiveEnabled(existing, eventType, notifyAll) ==
    IF Len(existing) = 0                       \* isNewUser
    THEN notifyAll
    ELSE IF HasStored(existing, eventType)
         THEN StoredValue(existing, eventType)
         ELSE notifyAll

\* availableEventTypes.map(...) of the try block.
MergedPrefs(candidates, existing, notifyAll) ==
    [k \in 1..Len(candidates) |->
        [event_type |-> candidates[k],
         is_enabled |-> EffectiveEnabled(existing, candidates[k], notifyAll)]]

\* availableEventTypes.map(...) of the catch block.
DisabledPrefs(candidates) ==
    [k \in 1..Len(candidates) |->
        [event_type |-> candidates[k], is_enabled |-> FALSE]]

\* getEventPreferences(availableEventTypes) is called and awaits
\* getPreferences().
EvPrefsStart ==
    /\ prefCall.pc \in {"idle", "done"}
    /\ \E candidates \in CandidateLists :
          prefCall' = [pc |-> "prefs", candidates |-> candidates,
                       prefsFailed |-> FALSE, notifyAllEvents |-> TRUE,
                       storedKind |-> "none", result |-> <<>>]
    /\ UNCHANGED <<prefsAnswer, storedPrefs>>
    /\ PrefFrame

\* getPreferences() settles; with no candidate the call returns [], else
\* it requests the stored per-type preferences.
EvPrefsGotPrefs ==
    /\ prefCall.pc = "prefs"
    /\ \E failed \in BOOLEAN :
          prefCall' = [prefCall EXCEPT
                          !.prefsFailed = failed,
                          !.notifyAllEvents = NotifyAllEventsRead(prefsAnswer, failed),
                          !.pc = IF Len(prefCall.candidates) = 0
                                 THEN "done" ELSE "stored"]
    /\ UNCHANGED <<prefsAnswer, storedPrefs>>
    /\ PrefFrame

\* api.get('/api/users/me/event-preferences') settles: with the stored
\* array, with something that is not an array, or with a failure.
EvPrefsGotStored ==
    /\ prefCall.pc = "stored"
    /\ \E kind \in {"array", "not-array", "error"} :
          LET existing == IF kind = "array" THEN storedPrefs ELSE <<>>
          IN prefCall' = [prefCall EXCEPT
                !.storedKind = kind,
                !.pc = "done",
                !.result = IF kind = "error"
                           THEN DisabledPrefs(prefCall.candidates)
                           ELSE MergedPrefs(prefCall.candidates, existing,
                                            prefCall.notifyAllEvents)]
    /\ UNCHANGED <<prefsAnswer, storedPrefs>>
    /\ PrefFrame

PrefInit ==
    /\ prefsAnswer \in PrefsAnswers
    /\ storedPrefs \in StoredSets
    /\ prefCall = [pc |-> "idle", candidates |-> <<>>, prefsFailed |-> FALSE,
                   notifyAllEvents |-> TRUE, storedKind |-> "none",
                   result |-> <<>>]
    /\ CacheIdle
    /\ NotifIdle
    /\ ClickIdle
    /\ SubIdle
    /\ MgrIdle
    /\ TypesIdle
    /\ GetIdle
    /\ SetIdle

PrefNext ==
    \/ EvPrefsStart
    \/ EvPrefsGotPrefs
    \/ EvPrefsGotStored

SpecPref == PrefInit /\ [][PrefNext]_vars

\* The call has merged the candidates with the stored set the server gave.
MergedFromStored ==
    prefCall.pc = "done" /\ prefCall.storedKind = "array"

\* C19 (as claimed): with an empty stored set every candidate type is
\* returned with is_enabled = true, whatever notifyAllEvents is.
C19_NewUserAllEnabled ==
    (MergedFromStored /\ storedPrefs = <<>>)
    => /\ Len(prefCall.result) = Len(prefCall.candidates)
       /\ \A k \in 1..Len(prefCall.result) :
             prefCall.result[k].is_enabled = TRUE

\* C20: with a non-empty stored set the result has one record per candidate
\* type, in candidate order; a type with a stored record has the stored
\* value, a type without has the notifyAllEvents value getPreferences gave,
\* which is the server's unless that is missing or could not be read.
C20_StoredWinsElseGlobalFlag ==
    (MergedFromStored /\ storedPrefs # <<>>)
    => /\ Len(prefCall.result) = Len(prefCall.candidates)
       /\ ~prefCall.prefsFailed =>
             prefCall.notifyAllEvents = (prefsAnswer.notifyAllEvents # "false")
       /\ \A k \in 1..Len(prefCall.candidates) :
             LET t == prefCall.candidates[k]
                 recs == {j \in 1..Len(storedPrefs) :
                             storedPrefs[j].event_type = t}
             IN /\ prefCall.result[k].event_type = t
                /\ recs # {} =>
                      \A j \in recs :
                          prefCall.result[k].is_enabled = storedPrefs[j].is_enabled
                /\ recs = {} =>
                      prefCall.result[k].is_enabled = prefCall.notifyAllEvents

\* The global flag is off; one candidate has a stored record that is on and
\* is returned enabled, another has none and is returned disabled.
C20_Witness ==
    /\ MergedFromStored
    /\ ~prefCall.prefsFailed
    /\ prefsAnswer.notifyAllEvents = "false"
    /\ \E a, b \in 1..Len(prefCall.candidates) :
          /\ HasStored(storedPrefs, prefCall.candidates[a])
          /\ prefCall.result[a].is_enabled = TRUE
          /\ ~HasStored(storedPrefs, prefCall.candidates[b])
          /\ prefCall.result[b].is_enabled = FALSE

\* ------------------------------------------------------------------------
\* Preference Manager: getUniqueEventTypes
\* ------------------------------------------------------------------------

\* The labels events carry, in the order localeCompare sorts them.
LocaleOrder == <<"ama", "Birthday", "meeting">>
TypeLabels == {LocaleOrder[k] : k \in 1..Len(LocaleOrder)}

\* Calendar events: eventType is extendedProperties.eventType, sharedType is
\* extendedProperties.shared.eventType, and "" is a member that is missing
\* or empty.
CalendarEvents ==
    [eventType : {"", "meeting", "ama"},
     sharedType : {"", "meeting"},
     title : {"", "Birthday", "ama"}]

EventLists == UNION {[1..n -> CalendarEvents] : n \in 0..MaxEvents}

\* The body of the forEach with the title consulted first.
AddedTypeTitleFirst(event) ==
    IF event.title # "" THEN {event.title}
    ELSE IF event.eventType # "" THEN {event.eventType}
    ELSE {}

\* The body of the forEach: what one event adds to the set.
AddedType(event) ==
    IF event.eventType # "" THEN {event.eventType}
    ELSE IF event.title # "" THEN {event.title}
    ELSE {}

\* getUniqueEventTypes(events): [] for a value that is not an array; else
\* the members of the set, sorted with localeCompare.
GetUniqueEventTypes(isArray, events) ==
    IF ~isArray THEN <<>>
    ELSE LET types == UNION {AddedType(events[k]) : k \in 1..Len(events)}
             Collected(t) == t \in types
         IN SelectSeq(LocaleOrder, Collected)

\* getUniqueEventTypes(events) is called and returns.
TypesCall ==
    /\ typesCall.pc = "idle"
    /\ typesCall' = [typesCall EXCEPT
                        !.pc = "done",
                        !.result = GetUniqueEventTypes(typesCall.isArray,
                                                       typesCall.events)]
    /\ TypesFrame

TypesInit ==
    /\ \/ \E events \in EventLists :
             typesCall = [pc |-> "idle", isArray |-> TRUE, events |-> events,
                          result |-> <<>>]
       \/ typesCall = [pc |-> "idle", isArray |-> FALSE, events |-> <<>>,
                       result |-> <<>>]
    /\ CacheIdle
    /\ NotifIdle
    /\ ClickIdle
    /\ SubIdle
    /\ MgrIdle
    /\ PrefIdle
    /\ GetIdle
    /\ SetIdle

TypesNext == TypesCall

SpecTypes == TypesInit /\ [][TypesNext]_vars

ValidEmail == "a@b.c"

\* The two values a field the server holds can have.
PresentValue(f, on) ==
    IF f = "email" THEN (IF on THEN ValidEmail ELSE "")
    ELSE (IF on THEN "true" ELSE "false")

\* The records GET /api/users/me/preferences can give: at most MaxPresent
\* of the fields are set.
RawRecords ==
    UNION {{[f \in RawFields |->
                IF f \in S THEN PresentValue(f, on[f]) ELSE "absent"] :
              on \in [S -> BOOLEAN]} :
           S \in {T \in SUBSET RawFields : Cardinality(T) <= MaxPresent}}

DEFAULT_PREFERENCES ==
    [f \in PrefFields |-> IF f = "email" THEN "" ELSE "true"]

\* value !== false
NotFalse(value) == IF value # "false" THEN "true" ELSE "false"

\* value || ''
OrEmpty(value) == IF value \in {"absent", ""} THEN "" ELSE value

\* 'notify1hBefore' in response
IsLegacy(raw) == raw["notify1hBefore"] # "absent"

\* The migration branch as the earlier copy of the service has it: the
\* reminder pair is copied onto both channels.
MigratedBothChannels(raw) ==
    [f \in PrefFields |->
        IF f = "email" THEN OrEmpty(raw[f])
        ELSE IF f \in {"email1hBefore", "browser1hBefore"}
             THEN NotFalse(raw["notify1hBefore"])
        ELSE IF f \in {"email10mBefore", "browser10mBefore"}
             THEN NotFalse(raw["notify10mBefore"])
        ELSE NotFalse(raw[f])]

\* The migration branch: every field is read under its own name.
Migrated(raw) ==
    [f \in PrefFields |->
        IF f = "email" THEN OrEmpty(raw[f]) ELSE NotFalse(raw[f])]

\* The canonical branch without the defaults under the record.
MergedOverNothing(raw) == [f \in PrefFields |-> raw[f]]

\* { ...DEFAULT_PREFERENCES, ...(response || {}) }; a legacy member the
\* response carries is not one of the nine fields.
MergedOverDefaults(raw) ==
    [f \in PrefFields |->
        IF raw[f] = "absent" THEN DEFAULT_PREFERENCES[f] ELSE raw[f]]

\* What getPreferences returns for the answer of the server: kind is
\* "record", "empty" (no data) or "failure" (api.get threw).
GetPreferences(kind, raw) ==
    IF kind = "failure" THEN DEFAULT_PREFERENCES
    ELSE IF kind = "empty" THEN MergedOverDefaults(NoRecord)
    ELSE IF IsLegacy(raw) THEN Migrated(raw)
    ELSE MergedOverDefaults(raw)

\* getPreferences() is called and awaits api.get.
GetPrefsStart ==
    /\ getCall.pc = "idle"
    /\ getCall' = [getCall EXCEPT !.pc = "get"]
    /\ GetFrame

\* api.get settles, with the record, with no data, or with a failure.
GetPrefsSettle ==
    /\ getCall.pc = "get"
    /\ \E kind \in {"record", "empty", "failure"} :
          getCall' = [getCall EXCEPT
                         !.pc = "done",
                         !.kind = kind,
                         !.result = GetPreferences(kind, getCall.raw)]
    /\ GetFrame

GetInit ==
    /\ \E raw \in RawRecords :
          getCall = [pc |-> "idle", raw |-> raw, kind |-> "none",
                     result |-> [f \in PrefFields |-> "absent"]]
    /\ CacheIdle
    /\ NotifIdle
    /\ ClickIdle
    /\ SubIdle
    /\ MgrIdle
    /\ PrefIdle
    /\ TypesIdle
    /\ SetIdle

GetNext ==
    \/ GetPrefsStart
    \/ GetPrefsSettle

SpecGet == GetInit /\ [][GetNext]_vars

\* The call returned what it made of the record of the server.
GotRecord == getCall.pc = "done" /\ getCall.kind = "record"

\* C22 (as claimed): a record with both legacy fields and none of the four
\* channel fields is returned with both 1h flags equal to notify1hBefore not
\* being false, and both 10m flags equal to notify10mBefore not being false.
C22_LegacyOntoBothChannels ==
    (/\ GotRecord
     /\ \A f \in LegacyFields : getCall.raw[f] # "absent"
     /\ \A f \in {"email1hBefore", "email10mBefore", "browser1hBefore",
                  "browser10mBefore"} : getCall.raw[f] = "absent")
    => /\ getCall.result["email1hBefore"] = NotFalse(getCall.raw["notify1hBefore"])
       /\ getCall.result["browser1hBefore"] = NotFalse(getCall.raw["notify1hBefore"])
       /\ getCall.result["email10mBefore"] = NotFalse(getCall.raw["notify10mBefore"])
       /\ getCall.result["browser10mBefore"] = NotFalse(getCall.raw["notify10mBefore"])

PartialEmail == "a"

\* The characters of the addresses of the model.
EmailChars(email) ==
    IF email = ValidEmail THEN <<"a", "@", "b", ".", "c">>
    ELSE IF email = PartialEmail THEN <<"a">>
    ELSE <<>>

\* isValidEmail(email): /^[^\s@]+@[^\s@]+\.[^\s@]+$/ on a non-empty string.
IsValidEmail(email) ==
    LET cs == EmailChars(email)
        Plain(a, b) == a <= b /\ \A k \in a..b : cs[k] \notin {"@", " "}
    IN /\ Len(cs) > 0
       /\ \E at, dot \in 1..Len(cs) :
             /\ cs[at] = "@"
             /\ cs[dot] = "."
             /\ Plain(1, at - 1)
             /\ Plain(at + 1, dot - 1)
             /\ Plain(dot + 1, Len(cs))

\* { ...currentPrefs, ...updates }: a field the caller passes replaces the
\* current one.
MergeUpdates(current, updates) ==
    [f \in PrefFields |->
        IF updates[f] = "absent" THEN current[f] ELSE updates[f]]

\* The record the server holds after a PUT of the nine fields.
Stored(data) ==
    [f \in RawFields |-> IF f \in PrefFields THEN data[f] ELSE "absent"]

\* The test made on the answer of the PUT: result.notifyEmail && !result.email.
\* camel tells whether the answer has the camelCase members (the fields are
\* sent, and read back, under snake_case names).
ThrowsAfterPut(data, camel) ==
    camel /\ data["notifyEmail"] = "true" /\ data["email"] = ""

\* updatePreferences rejects: the PUT failed, or the test on its answer threw.
UpdateRejected(data, putOk, camel) == ~putOk \/ ThrowsAfterPut(data, camel)

\* The value updateEventPreference posts.
PostedValue(isEnabled, isNewType, notifyAll) ==
    IF isNewType /\ notifyAll THEN TRUE ELSE isEnabled

OnOff(enabled) == IF enabled THEN "on" ELSE "off"

\* The boolean of a checkbox that was clicked.
Negated(value) == IF value = "true" THEN "false" ELSE "true"

\* The per-type records after the POSTs of the types in posted succeeded.
AfterPosts(events, posted, ui) ==
    [t \in EventTypes |-> IF t \in posted THEN OnOff(ui[t]) ELSE events[t]]

\* The entries of the call log for one updatePreferences and for the
\* updateEventPreference calls of the types in called.
PutCall(data, putOk, camel) ==
    [op |-> "updatePreferences", failed |-> ~putOk,
     rejected |-> UpdateRejected(data, putOk, camel)]

PostCalls(called, failing) ==
    {[op |-> "updateEventPreference", failed |-> t \in failing,
      rejected |-> t \in failing] : t \in called}

\* ------------------------------------------------------------------------
\* Preference Manager: the settings modal
\* ------------------------------------------------------------------------

\* The checkboxes of the modal the model clicks.
ToggleKeys == {"notifyEmail", "notifyAllEvents", "email1hBefore", "email10mBefore"}

\* Whether GET /api/users/me/preferences answers or fails.
GetKinds == {"record", "failure"}

\* handlePreferenceChange(key, checked) for a checkbox: the state is updated,
\* the whole record is written with updatePreferences, and for
\* notifyAllEvents every listed type is then set to the new value, locally
\* and with one updateEventPreference each; a failure puts the former
\* preferences back.
TogglePreference ==
    /\ ops < MaxOps
    /\ \E key \in ToggleKeys : \E kind \in GetKinds : \E putOk, camel \in BOOLEAN :
       \E failing \in SUBSET OnScreen :
          LET value == Negated(uiPrefs[key])
              updatedPrefs == [uiPrefs EXCEPT ![key] = value]
              data == MergeUpdates(GetPreferences(kind, srvPrefs), updatedPrefs)
              rejected == UpdateRejected(data, putOk, camel)
              cascade == ~rejected /\ key = "notifyAllEvents"
              all == [t \in OnScreen |-> value = "true"]
          IN /\ ~cascade => failing = {}
             /\ ~putOk => ~camel
             /\ puts' = puts \cup {[data |-> data, stored |-> putOk]}
             /\ srvPrefs' = IF putOk THEN Stored(data) ELSE srvPrefs
             /\ uiPrefs' = IF rejected \/ failing # {} THEN uiPrefs ELSE updatedPrefs
             /\ uiEvents' = IF cascade THEN all ELSE uiEvents
             /\ srvEvents' = IF cascade
                             THEN AfterPosts(srvEvents, OnScreen \ failing, all)
                             ELSE srvEvents
             /\ writeCalls' = writeCalls \cup {PutCall(data, putOk, camel)}
                   \cup PostCalls(IF cascade THEN OnScreen ELSE {}, failing)
    /\ ops' = ops + 1
    /\ UNCHANGED <<srvEvents0, touched, timers, emailWrites, burstLast>>
    /\ SetFrame

\* toggleEventType(eventType): the state is flipped and the new value written
\* with updateEventPreference; a failure flips it back.
ToggleEventType ==
    /\ ops < MaxOps
    /\ \E t \in OnScreen : \E ok \in BOOLEAN :
          LET newValue == PostedValue(~uiEvents[t], FALSE,
                              GetPreferences("record", srvPrefs)["notifyAllEvents"] = "true")
          IN /\ uiEvents' = IF ok THEN [uiEvents EXCEPT ![t] = newValue] ELSE uiEvents
             /\ srvEvents' = IF ok THEN [srvEvents EXCEPT ![t] = OnOff(newValue)]
                             ELSE srvEvents
             /\ touched' = touched \cup {t}
             /\ writeCalls' = writeCalls
                   \cup PostCalls({t}, IF ok THEN {} ELSE {t})
    /\ ops' = ops + 1
    /\ UNCHANGED <<srvPrefs, srvEvents0, uiPrefs, puts, timers, emailWrites, burstLast>>
    /\ SetFrame

\* toggleAllEventTypes(enabled), the buttons "select all" and "deselect
\* all": every listed type is set, locally and with one updateEventPreference
\* each, then notifyAllEvents is written with updatePreferences; a failure
\* puts the former event types back.
ToggleAllEventTypes ==
    /\ ops < MaxOps
    /\ \E enabled \in BOOLEAN : \E kind \in GetKinds : \E putOk, camel \in BOOLEAN :
       \E failing \in SUBSET OnScreen :
          LET all == [t \in OnScreen |-> enabled]
              updatedPrefs == [uiPrefs EXCEPT !["notifyAllEvents"] =
                                  IF enabled THEN "true" ELSE "false"]
              data == MergeUpdates(GetPreferences(kind, srvPrefs), updatedPrefs)
              written == failing = {}
              rejected == UpdateRejected(data, putOk, camel)
          IN /\ ~written => (putOk /\ ~camel)
             /\ ~putOk => ~camel
             /\ srvEvents' = AfterPosts(srvEvents, OnScreen \ failing, all)
             /\ puts' = IF written THEN puts \cup {[data |-> data, stored |-> putOk]}
                        ELSE puts
             /\ srvPrefs' = IF written /\ putOk THEN Stored(data) ELSE srvPrefs
             /\ uiPrefs' = IF written /\ ~rejected THEN updatedPrefs ELSE uiPrefs
             /\ uiEvents' = IF written /\ ~rejected THEN all ELSE uiEvents
             /\ writeCalls' = writeCalls \cup PostCalls(OnScreen, failing)
                   \cup (IF written THEN {PutCall(data, putOk, camel)} ELSE {})
    /\ touched' = touched \cup OnScreen
    /\ ops' = ops + 1
    /\ UNCHANGED <<srvEvents0, timers, emailWrites, burstLast>>
    /\ SetFrame

\* handleSave(): the preferences are written with updatePreferences, then
\* every listed type with updateEventPreference; onClose() ends the session
\* when all of it succeeded.  The notification permission is not granted in
\* the sessions of the model, so that no push subscription is made.
HandleSave ==
    /\ ops < MaxOps
    /\ \E kind \in GetKinds : \E putOk, camel \in BOOLEAN :
       \E failing \in SUBSET OnScreen :
          LET data == MergeUpdates(GetPreferences(kind, srvPrefs), uiPrefs)
              rejected == UpdateRejected(data, putOk, camel)
          IN /\ rejected => failing = {}
             /\ ~putOk => ~camel
             /\ puts' = puts \cup {[data |-> data, stored |-> putOk]}
             /\ srvPrefs' = IF putOk THEN Stored(data) ELSE srvPrefs
             /\ srvEvents' = IF rejected THEN srvEvents
                             ELSE AfterPosts(srvEvents, OnScreen \ failing, uiEvents)
             /\ writeCalls' = writeCalls \cup {PutCall(data, putOk, camel)}
                   \cup PostCalls(IF rejected THEN {} ELSE OnScreen, failing)
             /\ ops' = IF rejected \/ failing # {} THEN ops + 1 ELSE MaxOps
    /\ UNCHANGED <<srvEvents0, uiPrefs, uiEvents, touched, timers, emailWrites,
                   burstLast>>
    /\ SetFrame

\* saveAllPreferences(preferences) with the form of a settings component:
\* updatePreferences with the nine fields, whose rejection is thrown on as
\* 'Failed to save preferences'; then one POST per event preference, each in
\* a try/catch that logs and goes on; then { success: true }.
SaveAllPreferences ==
    /\ ops < MaxOps
    /\ \E kind \in GetKinds : \E putOk, camel \in BOOLEAN :
       \E failing \in SUBSET OnScreen :
          LET data == MergeUpdates(GetPreferences(kind, srvPrefs), uiPrefs)
              rejected == UpdateRejected(data, putOk, camel)
          IN /\ rejected => failing = {}
             /\ ~putOk => ~camel
             /\ puts' = puts \cup {[data |-> data, stored |-> putOk]}
             /\ srvPrefs' = IF putOk THEN Stored(data) ELSE srvPrefs
             /\ srvEvents' = IF rejected THEN srvEvents
                             ELSE AfterPosts(srvEvents, OnScreen \ failing, uiEvents)
             /\ writeCalls' = writeCalls \cup {PutCall(data, putOk, camel)}
                   \cup {[op |-> "saveAllPreferences",
                          failed |-> ~putOk \/ failing # {},
                          rejected |-> rejected]}
    /\ ops' = ops + 1
    /\ UNCHANGED <<srvEvents0, uiPrefs, uiEvents, touched, timers, emailWrites,
                   burstLast>>
    /\ SetFrame

\* The records the server holds when the modal opens.
ServerRecord(email, notifyEmail, notifyAllEvents) ==
    [f \in RawFields |->
        IF f = "email" THEN email
        ELSE IF f = "notifyEmail" THEN notifyEmail
        ELSE IF f = "notifyAllEvents" THEN notifyAllEvents
        ELSE "absent"]

SessionRecords ==
    {NoRecord,
     ServerRecord(ValidEmail, "true", "false"),
     ServerRecord("", "false", "true")}

SessionEvents ==
    {[t \in EventTypes |-> "absent"],
     [t \in EventTypes |-> IF t = "ama" THEN "on"
                           ELSE IF t = "meetup" THEN "off" ELSE "absent"],
     [t \in EventTypes |-> IF t = "ama" THEN "off" ELSE "absent"]}

\* The effect of the modal that follows Notification.permission: the
\* permission is not granted, so notifyBrowser is put off.
PermissionEffect(prefs) == [prefs EXCEPT !["notifyBrowser"] = "false"]

\* loadSettings(): the preferences getPreferences gave.
LoadedPrefs(raw) == PermissionEffect(GetPreferences("record", raw))

\* loadSettings(): each listed type starts from notifyAllEvents and takes
\* the value getEventPreferences gave for it.
LoadedEvents(raw, events) ==
    [t \in OnScreen |->
        EffectiveEnabled(StoredFor(events), t,
                         GetPreferences("record", raw)["notifyAllEvents"] = "true")]

SessionInit ==
    /\ srvPrefs \in SessionRecords
    /\ srvEvents \in SessionEvents
    /\ srvEvents0 = srvEvents
    /\ uiPrefs = LoadedPrefs(srvPrefs)
    /\ uiEvents = LoadedEvents(srvPrefs, srvEvents)
    /\ touched = {}
    /\ puts = {}
    /\ writeCalls = {}
    /\ ops = 0
    /\ timers = <<>>
    /\ emailWrites = <<>>
    /\ burstLast = <<>>
    /\ CacheIdle
    /\ NotifIdle
    /\ ClickIdle
    /\ SubIdle
    /\ MgrIdle
    /\ PrefIdle
    /\ TypesIdle
    /\ GetIdle

SettingsNext ==
    \/ TogglePreference
    \/ ToggleEventType
    \/ ToggleAllEventTypes
    \/ HandleSave
    \/ SaveAllPreferences

SpecSettings == SessionInit /\ [][SettingsNext]_vars

\* C21 (as claimed): a type that had a stored record when the settings were
\* opened, and for which the user has set no value since, still has the
\* value stored then: no write of the global flag changes it.
C21_ExplicitChoicesSticky ==
    \A t \in EventTypes :
        (srvEvents0[t] # "absent" /\ t \notin touched)
        => srvEvents[t] = srvEvents0[t]

\* C24 (as claimed): a call of updatePreferences, updateEventPreference or
\* saveAllPreferences in which a write to the server failed has rejected.
C24_FailedWriteRejects ==
    \A c \in writeCalls : c.failed => c.rejected

\* C25 (as claimed): no PUT of the preferences is issued with notifyEmail
\* true and an address that is empty or not a valid one.
C25_EmailGating ==
    \A p \in puts :
        p.data["notifyEmail"] = "true" => IsValidEmail(p.data["email"])

\* C26 (as claimed): every preference record the server stored has a timing
\* flag on for each channel that is on.
C26_TimingFlags ==
    \A p \in puts :
        p.stored =>
           /\ p.data["notifyEmail"] = "true" =>
                 (p.data["email1hBefore"] = "true" \/ p.data["email10mBefore"] = "true")
           /\ p.data["notifyBrowser"] = "true" =>
                 (p.data["browser1hBefore"] = "true"
                     \/ p.data["browser10mBefore"] = "true")

\* ------------------------------------------------------------------------
\* Preference Manager: the email field of the settings modal
\* ------------------------------------------------------------------------

\* What the user can have typed in the field.
TypedEmails == {"", PartialEmail, ValidEmail}

\* The edit with the pending timeout left to fire.
RescheduleKeepsPending(pending, ref, id, value) ==
    Append(pending, [id |-> id, value |-> value])

\* clearTimeout(emailUpdateTimer.current) and setTimeout(updateEmail, 1000):
\* the timeout the ref names is cancelled when it is pending, and a new one
\* that will write value is set.
Reschedule(pending, ref, id, value) ==
    LET Others(t) == t.id # ref
    IN Append(SelectSeq(pending, Others), [id |-> id, value |-> value])

\* handlePreferenceChange('email', value): the state takes the address and
\* the write is put off by a second.  An edit made while a timeout is
\* pending belongs to the burst of the edit that set it.
EmailEdit ==
    /\ ops < MaxEdits
    /\ \E newEmail \in TypedEmails :
          /\ uiPrefs' = [uiPrefs EXCEPT !["email"] = newEmail]
          /\ timers' = Reschedule(timers, ops, ops + 1, newEmail)
          /\ burstLast' = IF timers = <<>>
                          THEN Append(burstLast, newEmail)
                          ELSE [burstLast EXCEPT ![Len(burstLast)] = newEmail]
    /\ ops' = ops + 1
    /\ UNCHANGED <<srvPrefs, srvEvents, srvEvents0, uiEvents, touched, puts,
                   writeCalls, emailWrites>>
    /\ SetFrame

\* A timeout fires and updateEmail runs: the preferences are read, written
\* back with the address of the edit that set the timeout, and on a failure
\* read again and put in the state.
EmailTimerFire ==
    /\ \E i \in 1..Len(timers) : \E kind, revertKind \in GetKinds :
       \E putOk, camel \in BOOLEAN :
          LET newEmail == timers[i].value
              currentPrefs == GetPreferences(kind, srvPrefs)
              updates == [currentPrefs EXCEPT !["email"] = newEmail]
              data == MergeUpdates(GetPreferences(kind, srvPrefs), updates)
              rejected == UpdateRejected(data, putOk, camel)
              Others(t) == t.id # timers[i].id
          IN /\ ~putOk => ~camel
             /\ ~rejected => revertKind = "record"
             /\ timers' = SelectSeq(timers, Others)
             /\ emailWrites' = Append(emailWrites, data["email"])
             /\ puts' = puts \cup {[data |-> data, stored |-> putOk]}
             /\ srvPrefs' = IF putOk THEN Stored(data) ELSE srvPrefs
             /\ uiPrefs' = IF rejected
                           THEN PermissionEffect(
                                    GetPreferences(revertKind,
                                        IF putOk THEN Stored(data) ELSE srvPrefs))
                           ELSE uiPrefs
             /\ writeCalls' = writeCalls \cup {PutCall(data, putOk, camel)}
    /\ UNCHANGED <<srvEvents, srvEvents0, uiEvents, touched, ops, burstLast>>
    /\ SetFrame

EmailNext ==
    \/ EmailEdit
    \/ EmailTimerFire

SpecEmail == SessionInit /\ [][EmailNext]_vars

\* C30: at most one timeout of the email field is pending; every burst of
\* edits has led to one write or has its timeout pending, never both and
\* never two; and the write of a burst, or its pending timeout, carries the
\* address typed last in the burst.
C30_OneWritePerBurst ==
    /\ Len(timers) <= 1
    /\ Len(emailWrites) + Len(timers) = Len(burstLast)
    /\ \A k \in 1..Len(emailWrites) : emailWrites[k] = burstLast[k]
    /\ \A i \in 1..Len(timers) : timers[i].value = burstLast[Len(burstLast)]

\* Three edits in one burst, the last one the full address, then the
\* timeout fired once: one write, with the full address.
C30_Witness ==
    /\ ops = 3
    /\ Len(burstLast) = 1
    /\ timers = <<>>
    /\ emailWrites = <<ValidEmail>>

=============================================================================
